---------------------------- MODULE Spec2Model ----------------------------
(***************************************************************************)
(* A model of the `run` script interpreter (JackMordaunt/run).             *)
(*                                                                         *)
(* A Rust String is modelled as a sequence of one-character strings, so    *)
(* that tokenising, splitting and substitution are computed character by   *)
(* character as the code computes them.  A string literal of the code      *)
(* (an error text) is one chunk of such a sequence.                        *)
(*                                                                         *)
(* Specifications:                                                         *)
(*   SpecSplit  util.rs    SplitWords as an iterator, one next() per step  *)
(*   SpecEnv    env.rs     Environment::from_str, one loop iteration/step  *)
(*   SpecParse  parser.rs  ItemParser::parse, one script line per step     *)
(*   Spec       main.rs    main: environment, parse, then the run loop     *)
(*   SpecExec   pipeline.rs  Pipeline::execute on one Item, step by step   *)
(***************************************************************************)
EXTENDS Integers, Sequences, FiniteSets, TLC

VARIABLES
    input,       \* the string handed to the component under check
    src,         \* SplitWords.src: the characters the iterator has not consumed
    words,       \* the tokens the iterator has yielded so far
    exhausted,   \* TRUE once next() has returned None
    named,       \* Environment.named: a function from names to values
    positional,  \* Environment.positional
    envState,    \* from_str: "idle", "running", "ok" (returned Ok) or "err"
    envErr,      \* the error text from_str returned
    overflow_checks, \* the build: TRUE when integer overflow panics (debug)
    lines,       \* parse: the lines of the script not yet taken
    collected,   \* parse: the Vec<Item> of each line parsed so far
    result,      \* parse: pending, or what parse returned
    dry_run,     \* main: config.dry_run
    pc,          \* main: where the run is
    itemsLeft,   \* main: `items`, what the loop has not taken yet
    itemNow,     \* main: `item`, the pipeline being run
    cmdsLeft,    \* main: `cmds`, the commands of it not yet taken
    prevChild,   \* main: `prev`, the process spawned last in it
    effects,     \* main: what was printed, removed, spawned and waited for
    self,        \* execute: the Item it is called on
    cmdIter,     \* execute: `cmds`, the peekable iterator, as what is left
    cmdNow,      \* execute: `cmd`, the command the loop has taken
    prevProc,    \* execute: `prev`, None or the index in procs of a Child
    stdinNow,    \* execute: `stdin` of the command being spawned
    procs,       \* the processes spawned so far, in the order of spawning
    sink,        \* `output`: the lines written to it
    trace,       \* what execute did to the world, in order
    epc,         \* execute: where it is
    ret          \* execute: pending, or what it returned

splitVars == <<src, words, exhausted>>
envVars == <<named, positional, envState, envErr>>
parseVars == <<overflow_checks, lines, collected, result>>
mainVars == <<dry_run, pc, itemsLeft, itemNow, cmdsLeft, prevChild, effects>>
execVars == <<self, cmdIter, cmdNow, prevProc, stdinNow, procs, sink, trace, epc, ret>>
vars == <<input, splitVars, envVars, parseVars, mainVars, execVars>>

\* the value of the variables a specification does not use
SplitIdle == words = <<>> /\ exhausted = FALSE
EnvIdle == envState = "idle" /\ envErr = <<>>
ParseIdle ==
    /\ overflow_checks = TRUE
    /\ lines = <<>>
    /\ collected = <<>>
    /\ result = [kind |-> "idle"]
MainIdle ==
    /\ dry_run = FALSE
    /\ pc = "idle"
    /\ itemsLeft = <<>>
    /\ itemNow = [some |-> FALSE]
    /\ cmdsLeft = <<>>
    /\ prevChild = [some |-> FALSE]
    /\ effects = <<>>
ExecIdle ==
    /\ self = [type |-> "Comment", text |-> <<>>]
    /\ cmdIter = <<>>
    /\ cmdNow = [some |-> FALSE]
    /\ prevProc = [some |-> FALSE]
    /\ stdinNow = [some |-> FALSE]
    /\ procs = <<>>
    /\ sink = <<>>
    /\ trace = <<>>
    /\ epc = "idle"
    /\ ret = [kind |-> "idle"]

-----------------------------------------------------------------------------
(* Characters and strings *)

QUOTE == "\""
BACKSLASH == "\\"
SPACE == " "

\* char::is_whitespace, for the characters the model uses
IsWhitespace(c) == c \in {" ", "\t", "\n", "\r"}

None == [some |-> FALSE]
Some(v) == [some |-> TRUE, val |-> v]

\* every sequence over S of length at most n
SeqsUpTo(S, n) == UNION {[1..k -> S] : k \in 0..n}

-----------------------------------------------------------------------------
(* util.rs: SplitWords *)

\* (mutation of QuotedSpan: the escape \" is not recognised, so the quote
\* after a backslash ends the span)
RECURSIVE QuotedSpan_NoEscape(_, _)
QuotedSpan_NoEscape(s, word) ==
    IF s = <<>> THEN [closed |-> FALSE, word |-> word, rest |-> <<>>]
    ELSE IF Head(s) = QUOTE
      THEN [closed |-> TRUE, word |-> word, rest |-> Tail(s)]
    ELSE QuotedSpan_NoEscape(Tail(s), Append(word, Head(s)))

\* The inner `while let (Some(next), peek)` loop of next(), entered after an
\* opening quote.  closed: the loop returned Some(word) at a bare quote;
\* otherwise the source ran out and the loop ended.
RECURSIVE QuotedSpan(_, _)
QuotedSpan(s, word) ==
    IF s = <<>> THEN [closed |-> FALSE, word |-> word, rest |-> <<>>]
    ELSE LET next == Head(s)
             peek == IF Len(s) > 1 THEN Some(s[2]) ELSE None
         IN  IF next = BACKSLASH /\ peek = Some(QUOTE)
               THEN QuotedSpan(Tail(Tail(s)), word \o <<BACKSLASH, QUOTE>>)
             ELSE IF next = QUOTE
               THEN [closed |-> TRUE, word |-> word, rest |-> Tail(s)]
             ELSE QuotedSpan(Tail(s), Append(word, next))

\* What follows the inner loop when the source ran out inside a quoted span:
\* control falls through to the whitespace test and to word.push(c), with c
\* still the opening quote.
UnclosedFallThrough(word) == Append(word, QUOTE)

\* SplitWords::next with `word` as collected so far: the outer while loop.
\* lines 57-61: the source has nothing more
EndOfSource(word) ==
    [item |-> IF word = <<>> THEN None ELSE Some(word), rest |-> <<>>]

\* after the inner loop q: `return Some(word)` when it met the closing
\* quote; otherwise the fall-through, and the outer loop finds the source
\* exhausted
AfterQuotedSpan(q) ==
    IF q.closed THEN [item |-> Some(q.word), rest |-> q.rest]
    ELSE EndOfSource(UnclosedFallThrough(q.word))

RECURSIVE NextWord(_, _)
NextWord(s, word) ==
    IF s = <<>> THEN EndOfSource(word)
    ELSE IF Head(s) = QUOTE THEN AfterQuotedSpan(QuotedSpan(Tail(s), word))
    ELSE IF IsWhitespace(Head(s))
      THEN IF word = <<>>
             THEN NextWord(Tail(s), word)
             ELSE [item |-> Some(word), rest |-> Tail(s)]
    ELSE NextWord(Tail(s), Append(word, Head(s)))

\* fn next(&mut self) -> Option<String>
SplitWords_next(s) == NextWord(s, <<>>)

\* SplitWords { src }.collect::<Vec<_>>()
RECURSIVE CollectWords(_)
CollectWords(s) ==
    LET r == SplitWords_next(s) IN
    IF r.item.some THEN <<r.item.val>> \o CollectWords(r.rest) ELSE <<>>

-----------------------------------------------------------------------------
(* SpecSplit: the iterator driven to exhaustion over every short input *)

MaxSplitLen == 6
SplitAlphabet == {"a", SPACE, QUOTE, BACKSLASH}

InitSplit ==
    /\ input \in SeqsUpTo(SplitAlphabet, MaxSplitLen)
    /\ src = input
    /\ words = <<>>
    /\ exhausted = FALSE
    /\ named = <<>>
    /\ positional = <<>>
    /\ EnvIdle
    /\ ParseIdle
    /\ MainIdle
    /\ ExecIdle

\* one call of next() that yields a token
SplitYield ==
    /\ ~exhausted
    /\ SplitWords_next(src).item.some
    /\ words' = Append(words, SplitWords_next(src).item.val)
    /\ src' = SplitWords_next(src).rest
    /\ UNCHANGED <<execVars, mainVars, input, exhausted, envVars, parseVars>>

\* one call of next() that returns None
SplitExhaust ==
    /\ ~exhausted
    /\ ~SplitWords_next(src).item.some
    /\ src' = SplitWords_next(src).rest
    /\ exhausted' = TRUE
    /\ UNCHANGED <<execVars, mainVars, input, words, envVars, parseVars>>

NextSplit == SplitYield \/ SplitExhaust

SpecSplit == InitSplit /\ [][NextSplit]_vars

-----------------------------------------------------------------------------
(* env.rs: Environment::from_str *)

\* str::starts_with(p), p a sequence of characters
StartsWith(s, p) == Len(s) >= Len(p) /\ SubSeq(s, 1, Len(p)) = p

\* str::trim_start_matches(c) and str::trim_end_matches(c), c one character
RECURSIVE TrimStartChar(_, _)
TrimStartChar(s, c) ==
    IF s # <<>> /\ Head(s) = c THEN TrimStartChar(Tail(s), c) ELSE s
RECURSIVE TrimEndChar(_, _)
TrimEndChar(s, c) ==
    IF s # <<>> /\ s[Len(s)] = c
      THEN TrimEndChar(SubSeq(s, 1, Len(s) - 1), c) ELSE s

\* str::trim_matches(c)
TrimMatches(s, c) == TrimEndChar(TrimStartChar(s, c), c)

\* (mutation of FlagName: only the leading dashes are removed)
FlagName_LeadingOnly(arg) == TrimStartChar(arg, "-")

\* let name = arg.trim_matches('-').to_owned();
FlagName(arg) == TrimMatches(arg, "-")

\* HashMap::insert
MapInsert(m, k, v) == [x \in DOMAIN m \cup {k} |-> IF x = k THEN v ELSE m[x]]
EmptyMap == <<>>

\* format!("{} is missing a value", arg)
MissingValue(arg) == arg \o <<" is missing a value">>

\* One iteration of `while let Some(arg) = iter.next()`, from the iterator
\* position s with the environment built so far.  state: "running" (the loop
\* goes on), "ok" (the loop ended, Ok(env)) or "err" (return Err).  kind: the
\* branch taken.
EnvIteration(s, nm, pos) ==
    LET a == SplitWords_next(s) IN
    IF ~a.item.some
      THEN [state |-> "ok", kind |-> "end", src |-> a.rest, named |-> nm,
            positional |-> pos, err |-> <<>>]
    ELSE IF StartsWith(a.item.val, <<"-">>)
      THEN LET v == SplitWords_next(a.rest) IN
           IF ~v.item.some
             THEN [state |-> "running", kind |-> "dropped", src |-> v.rest,
                   named |-> nm, positional |-> pos, err |-> <<>>]
           ELSE IF StartsWith(v.item.val, <<"-">>)
             THEN [state |-> "err", kind |-> "missing", src |-> v.rest,
                   named |-> nm, positional |-> pos,
                   err |-> MissingValue(a.item.val)]
           ELSE [state |-> "running", kind |-> "flag", src |-> v.rest,
                 named |-> MapInsert(nm, FlagName(a.item.val), v.item.val),
                 positional |-> pos, err |-> <<>>]
    ELSE [state |-> "running", kind |-> "positional", src |-> a.rest,
          named |-> nm, positional |-> Append(pos, a.item.val), err |-> <<>>]

\* fn from_str(s: &str) -> Result<Self, Self::Err>: the loop run to its end
RECURSIVE EnvLoop(_, _, _)
EnvLoop(s, nm, pos) ==
    LET r == EnvIteration(s, nm, pos) IN
    IF r.state = "running" THEN EnvLoop(r.src, r.named, r.positional) ELSE r
Environment_from_str(s) == EnvLoop(s, EmptyMap, <<>>)

-----------------------------------------------------------------------------
(* SpecEnv: from_str, one loop iteration per step, over every short list of
   argument tokens *)

MaxEnvTokens == 4

\* the raw tokens an input is made of, quoted as main quotes each argument or
\* bare as in the test of env.rs
EnvVocabulary ==
    { <<"-", "a">>, <<"-", "-", "a", "-">>, <<"-">>, <<"a">>, <<"b">>,
      <<QUOTE, "a", SPACE, "b", QUOTE>>, <<QUOTE, "-", "b", QUOTE>>,
      <<QUOTE, QUOTE>> }

\* the pieces joined, each followed by a space (main.rs, lines 58-64)
RECURSIVE JoinSpaced(_)
JoinSpaced(ps) ==
    IF ps = <<>> THEN <<>> ELSE Head(ps) \o <<SPACE>> \o JoinSpaced(Tail(ps))

InitEnv ==
    /\ \E ps \in SeqsUpTo(EnvVocabulary, MaxEnvTokens) : input = JoinSpaced(ps)
    /\ src = input
    /\ SplitIdle
    /\ named = EmptyMap
    /\ positional = <<>>
    /\ envState = "running"
    /\ envErr = <<>>
    /\ ParseIdle
    /\ MainIdle
    /\ ExecIdle

EnvApply(r) ==
    /\ src' = r.src
    /\ named' = r.named
    /\ positional' = r.positional
    /\ envState' = r.state
    /\ envErr' = r.err
    /\ UNCHANGED <<execVars, mainVars, input, words, exhausted, parseVars>>

\* a flag followed by its value: env.named.insert(name, value)
EnvFlag ==
    /\ envState = "running"
    /\ EnvIteration(src, named, positional).kind = "flag"
    /\ EnvApply(EnvIteration(src, named, positional))

\* a flag with no token after it: nothing is stored
EnvFlagDropped ==
    /\ envState = "running"
    /\ EnvIteration(src, named, positional).kind = "dropped"
    /\ EnvApply(EnvIteration(src, named, positional))

\* a flag followed by a token that starts with `-`: return Err
EnvFlagMissingValue ==
    /\ envState = "running"
    /\ EnvIteration(src, named, positional).kind = "missing"
    /\ EnvApply(EnvIteration(src, named, positional))

\* any other token: env.positional.push(arg)
EnvPositional ==
    /\ envState = "running"
    /\ EnvIteration(src, named, positional).kind = "positional"
    /\ EnvApply(EnvIteration(src, named, positional))

\* the iterator is exhausted: Ok(env)
EnvDone ==
    /\ envState = "running"
    /\ EnvIteration(src, named, positional).kind = "end"
    /\ EnvApply(EnvIteration(src, named, positional))

NextEnv ==
    EnvFlag \/ EnvFlagDropped \/ EnvFlagMissingValue \/ EnvPositional \/ EnvDone

SpecEnv == InitEnv /\ [][NextEnv]_vars

-----------------------------------------------------------------------------
(* parser.rs: string helpers of the standard library, as the parser uses them *)

\* str::split(pat): the pieces between the non-overlapping matches of pat,
\* found left to right; always at least one piece
RECURSIVE SplitFrom(_, _, _)
SplitFrom(s, pat, cur) ==
    IF s = <<>> THEN <<cur>>
    ELSE IF StartsWith(s, pat)
      THEN <<cur>> \o SplitFrom(SubSeq(s, Len(pat) + 1, Len(s)), pat, <<>>)
    ELSE SplitFrom(Tail(s), pat, Append(cur, Head(s)))
SplitStr(s, pat) == SplitFrom(s, pat, <<>>)

\* str::find(pat): the position of the first match (1-based), 0 for None
Find(s, pat) ==
    LET at == {i \in 1..Len(s) : StartsWith(SubSeq(s, i, Len(s)), pat)} IN
    IF at = {} THEN 0 ELSE CHOOSE i \in at : \A j \in at : i <= j

\* str::trim_start_matches(pat): pat removed from the front as often as it
\* matches
RECURSIVE TrimStartMatches(_, _)
TrimStartMatches(s, pat) ==
    IF StartsWith(s, pat)
      THEN TrimStartMatches(SubSeq(s, Len(pat) + 1, Len(s)), pat)
      ELSE s

\* str::trim()
RECURSIVE TrimStart(_)
TrimStart(s) == IF s # <<>> /\ IsWhitespace(Head(s)) THEN TrimStart(Tail(s)) ELSE s
RECURSIVE TrimEnd(_)
TrimEnd(s) ==
    IF s # <<>> /\ IsWhitespace(s[Len(s)])
      THEN TrimEnd(SubSeq(s, 1, Len(s) - 1)) ELSE s
Trim(s) == TrimEnd(TrimStart(s))

\* str::lines(): the pieces between line feeds, without a final empty piece,
\* each without a trailing carriage return
DropFinalEmpty(ps) ==
    IF ps[Len(ps)] = <<>> THEN SubSeq(ps, 1, Len(ps) - 1) ELSE ps
DropCarriageReturns(ls) ==
    [i \in 1..Len(ls) |->
        IF ls[i] # <<>> /\ ls[i][Len(ls[i])] = "\r"
          THEN SubSeq(ls[i], 1, Len(ls[i]) - 1) ELSE ls[i]]
StrLines(s) == DropCarriageReturns(DropFinalEmpty(SplitStr(s, <<"\n">>)))

\* str::contains(c)
Contains(s, c) == \E i \in 1..Len(s) : s[i] = c

Digits == <<"0", "1", "2", "3", "4", "5", "6", "7", "8", "9">>
IsDigit(c) == \E d \in 1..10 : Digits[d] = c
DigitValue(c) == (CHOOSE d \in 1..10 : Digits[d] = c) - 1

RECURSIVE DecimalValue(_, _)
DecimalValue(ds, acc) ==
    IF ds = <<>> THEN acc ELSE DecimalValue(Tail(ds), acc * 10 + DigitValue(Head(ds)))

\* the digits of usize::MAX = 18446744073709551615 (64-bit targets)
UsizeMaxDigits ==
    <<"1","8","4","4","6","7","4","4","0","7","3","7","0","9","5","5","1","6","1","5">>

\* ds > UsizeMaxDigits, both 20 digits long
RECURSIVE DigitsGreater(_, _)
DigitsGreater(ds, ms) ==
    IF ds = <<>> THEN FALSE
    ELSE IF DigitValue(Head(ds)) # DigitValue(Head(ms))
      THEN DigitValue(Head(ds)) > DigitValue(Head(ms))
    ELSE DigitsGreater(Tail(ds), Tail(ms))

\* an index no Vec of the model reaches: the value of a number of more than
\* nine digits, which the model's integers cannot hold
HugeIndex == 1000000000

\* ident.parse::<usize>(): an optional `+`, then one or more decimal digits;
\* Err on anything else and on a value above usize::MAX
\* the value of the significant digits sig, Err above usize::MAX
UsizeOfDigits(sig) ==
    IF Len(sig) > 20 \/ (Len(sig) = 20 /\ DigitsGreater(sig, UsizeMaxDigits))
      THEN [ok |-> FALSE]
    ELSE IF Len(sig) > 9 THEN [ok |-> TRUE, val |-> HugeIndex]
    ELSE [ok |-> TRUE, val |-> DecimalValue(sig, 0)]
ParseUnsigned(ds) ==
    IF ds = <<>> \/ \E i \in 1..Len(ds) : ~IsDigit(ds[i])
      THEN [ok |-> FALSE]
      ELSE UsizeOfDigits(TrimStartChar(ds, "0"))
ParseUsize(ident) ==
    ParseUnsigned(IF ident # <<>> /\ Head(ident) = "+" THEN Tail(ident) ELSE ident)

-----------------------------------------------------------------------------
(* parser.rs: ItemParser *)

\* The scan of parse_argument (lines 123-149) from the characters s with the
\* prefix collected so far.  After a `$`: at the end of the argument the `$`
\* is pushed to prefix; before `(` the ident is read up to the first `)` and
\* all the rest is the suffix; before any other character nothing is pushed.
\* lines 132-141: after `$(`, with body the characters that follow and
\* close the position of the first `)` in it (0: none)
SubstitutionSite(prefix, body, close) ==
    [prefix |-> prefix,
     ident |-> IF close = 0 THEN body ELSE SubSeq(body, 1, close - 1),
     suffix |-> IF close = 0 THEN <<>> ELSE SubSeq(body, close + 1, Len(body))]

RECURSIVE ScanArgument(_, _)
ScanArgument(s, prefix) ==
    IF s = <<>> THEN [prefix |-> prefix, ident |-> <<>>, suffix |-> <<>>]
    ELSE IF Head(s) = "$"
      THEN IF Len(s) = 1
             THEN ScanArgument(Tail(s), Append(prefix, "$"))
           ELSE IF s[2] = "("
             THEN SubstitutionSite(prefix, SubSeq(s, 3, Len(s)),
                                   Find(SubSeq(s, 3, Len(s)), <<")">>))
           ELSE ScanArgument(Tail(s), prefix)
    ELSE ScanArgument(Tail(s), Append(prefix, Head(s)))

\* Vec::get(i), i counted from 0
VecGet(v, i) == IF i >= 0 /\ i < Len(v) THEN Some(v[i + 1]) ELSE None
\* HashMap::get(k)
MapGet(m, k) == IF k \in DOMAIN m THEN Some(m[k]) ELSE None

Ok(v) == [kind |-> "ok", val |-> v]
Err(msg) == [kind |-> "err", msg |-> msg]
\* the thread panics: nothing is returned
Panic == [kind |-> "panic"]

\* a later-failure-first collect(): the failure of the rest wins
ConsResult_LastFailure(first, rest) ==
    IF rest.kind # "ok" THEN rest
    ELSE IF first.kind # "ok" THEN first
    ELSE Ok(<<first.val>> \o rest.val)

\* collect() into Result<Vec<_>, _>: the first element's Result before the
\* rest as collected; the first failure is what collect returns
ConsResult(first, rest) ==
    IF first.kind # "ok" THEN first
    ELSE IF rest.kind # "ok" THEN rest
    ELSE Ok(<<first.val>> \o rest.val)

\* format!("no value specified for argument: {}", ident)
NoValue(ident) == <<"no value specified for argument: ">> \o ident

\* `self.env.positional.get(index - 1)`: index - 1 on usize.  For index 0 the
\* subtraction overflows: a panic in a build with overflow checks, and
\* usize::MAX (an index no Vec has) in a build without.
PositionalLookup(index, pos, checks) ==
    IF index = 0
      THEN IF checks THEN Panic ELSE Ok(VecGet(pos, HugeIndex))
      ELSE Ok(VecGet(pos, index - 1))

\* fn parse_argument(&self, arg: String) -> Result<String, String>
\* lines 151-154: the value looked up for ident, n its parse as usize
LookupValue(ident, n, nm, pos, checks) ==
    IF n.ok THEN PositionalLookup(n.val, pos, checks) ELSE Ok(MapGet(nm, ident))

\* lines 156-159
Substituted(sc, value) ==
    IF value.kind = "panic" THEN Panic
    ELSE IF value.val.some THEN Ok(sc.prefix \o value.val.val \o sc.suffix)
    ELSE Err(NoValue(sc.ident))

SubstituteScanned(sc, nm, pos, checks) ==
    Substituted(sc, LookupValue(sc.ident, ParseUsize(sc.ident), nm, pos, checks))

parse_argument(arg, nm, pos, checks) ==
    IF ~Contains(arg, "$") THEN Ok(arg)
    ELSE SubstituteScanned(ScanArgument(arg, <<>>), nm, pos, checks)

\* .map(|arg| self.parse_argument(arg)).collect::<Result<Vec<_>, _>>():
\* left to right, ending at the first argument that fails
RECURSIVE ParseArguments(_, _, _, _)
ParseArguments(args, nm, pos, checks) ==
    IF args = <<>> THEN Ok(<<>>)
    ELSE ConsResult(parse_argument(Head(args), nm, pos, checks),
                    ParseArguments(Tail(args), nm, pos, checks))

\* one raw command string to a Cmd (lines 92-106)
NamedCmd(name, args) ==
    IF args.kind # "ok" THEN args ELSE Ok([name |-> name, args |-> args.val])
CmdOfWords(ws, nm, pos, checks) ==
    IF ws = <<>> THEN Err(<<"empty command">>)
    ELSE NamedCmd(Head(ws), ParseArguments(Tail(ws), nm, pos, checks))
ParseCmd(raw, nm, pos, checks) == CmdOfWords(CollectWords(raw), nm, pos, checks)

\* the raw commands to Cmds, left to right, ending at the first that fails
RECURSIVE ParseCmds(_, _, _, _)
ParseCmds(raws, nm, pos, checks) ==
    IF raws = <<>> THEN Ok(<<>>)
    ELSE ConsResult(ParseCmd(Head(raws), nm, pos, checks),
                    ParseCmds(Tail(raws), nm, pos, checks))

\* lines 66-70: the `- ` marker
IgnoreFailureOf(s) == StartsWith(s, <<"-", SPACE>>)
StripMarker(s) ==
    IF IgnoreFailureOf(s) THEN TrimStartMatches(s, <<"-", SPACE>>) ELSE s

\* a terminus that keeps the ` > ` it was found at
CutTerminus_KeepsMark(cmds, last, index) ==
    IF index = 0 THEN [cmds |-> cmds, terminus |-> None]
    ELSE [cmds |-> SubSeq(cmds, 1, Len(cmds) - 1) \o <<SubSeq(last, 1, index - 1)>>,
          terminus |-> Some(SubSeq(last, index, Len(last)))]

\* lines 72-88: the raw commands and the terminus of a fragment
\* lines 83-88, index the position last.find(" > ") gave (0: None)
CutTerminus(cmds, last, index) ==
    IF index = 0 THEN [cmds |-> cmds, terminus |-> None]
    ELSE [cmds |-> SubSeq(cmds, 1, Len(cmds) - 1) \o <<SubSeq(last, 1, index - 1)>>,
          terminus |-> Some(TrimStartMatches(SubSeq(last, index, Len(last)),
                                             <<SPACE, ">", SPACE>>))]
\* lines 75-83
TerminusOfLast(cmds) ==
    CutTerminus(cmds, cmds[Len(cmds)], Find(cmds[Len(cmds)], <<SPACE, ">", SPACE>>))
RawCommands(s) == TerminusOfLast(SplitStr(s, <<SPACE, "|", SPACE>>))

\* the literal stored in the Item (lines 64 and 113)
LiteralOf(s) == s

\* fn parse_pipeline(&self, s: &str) -> Result<Item, String>
\* lines 107-114
PipelineItem(s, terminus, cmds) ==
    IF cmds.kind # "ok" THEN cmds
    ELSE Ok([type |-> "Pipeline", cmds |-> cmds.val, terminus |-> terminus,
             ignore_failure |-> IgnoreFailureOf(s), literal |-> LiteralOf(s)])
PipelineOfRaw(s, rc, nm, pos, checks) ==
    PipelineItem(s, rc.terminus, ParseCmds(rc.cmds, nm, pos, checks))
parse_pipeline(s, nm, pos, checks) ==
    PipelineOfRaw(s, RawCommands(StripMarker(s)), nm, pos, checks)

\* s.split(";").map(|s| self.parse_pipeline(s)).collect(): the fragments
\* left to right, ending at the first that fails
RECURSIVE ParsePipelines(_, _, _, _)
ParsePipelines(frags, nm, pos, checks) ==
    IF frags = <<>> THEN Ok(<<>>)
    ELSE ConsResult(parse_pipeline(Head(frags), nm, pos, checks),
                    ParsePipelines(Tail(frags), nm, pos, checks))

Fragments(line) == SplitStr(line, <<";">>)
IsComment(line) == StartsWith(line, <<"/", "/">>)

\* the closure of lines 48-54 on one trimmed, non-empty line
ParseLine(line, nm, pos, checks) ==
    IF IsComment(line) THEN Ok(<<[type |-> "Comment", text |-> line]>>)
    ELSE ParsePipelines(Fragments(line), nm, pos, checks)

\* .into_iter().flatten().collect()
RECURSIVE Flatten(_)
Flatten(vs) == IF vs = <<>> THEN <<>> ELSE Head(vs) \o Flatten(Tail(vs))

\* pub fn parse(&self, s: &str) -> Result<Vec<Item>, String>, from the lines
\* ls still to take and the per-line results got so far
RECURSIVE ParseFrom(_, _, _, _, _)
ParseFrom(ls, got, nm, pos, checks) ==
    IF ls = <<>> THEN Ok(Flatten(got))
    ELSE LET line == Trim(Head(ls)) IN
         IF line = <<>> THEN ParseFrom(Tail(ls), got, nm, pos, checks)
         ELSE LET r == ParseLine(line, nm, pos, checks) IN
              IF r.kind # "ok" THEN r
              ELSE ParseFrom(Tail(ls), Append(got, r.val), nm, pos, checks)
ItemParser_parse(s, nm, pos, checks) == ParseFrom(StrLines(s), <<>>, nm, pos, checks)

-----------------------------------------------------------------------------
(* SpecParse: ItemParser::parse, one script line per step *)

MaxPieces == 4
MaxArgPieces == 3
MaxLines == 2

RECURSIVE Concat(_)
Concat(ps) == IF ps = <<>> THEN <<>> ELSE Head(ps) \o Concat(Tail(ps))

\* scripts of one line built from the marks of the grammar
StructurePieces ==
    { <<"a">>, <<SPACE>>, <<"-", SPACE>>, <<SPACE, "|", SPACE>>, <<SPACE, ">", SPACE>>,
        <<";">>, <<QUOTE>>, <<"|">> }
StructureScripts == {Concat(ps) : ps \in SeqsUpTo(StructurePieces, MaxPieces)}

\* scripts `c <argument> z`, the argument built from substitution pieces
ArgPieces ==
    { <<"v">>, <<"$">>, <<"(">>, <<")">>, <<"$", "(", "B", "i", "n", ")">>, <<"$", "(",
        "N", "o", ")">>, <<"$", "(", "1", ")">>, <<"$", "(", "3", ")">>,
      <<"$", "(", "0", ")">>, <<"$", "(", "+", "1", ")">> }
ArgScripts ==
    {<<"c", SPACE>> \o Concat(ps) \o <<SPACE, "z">> : ps \in SeqsUpTo(ArgPieces, MaxArgPieces)}

\* scripts of several lines
LineChoices ==
    { <<"o", "n", "e">>, <<>>, <<SPACE, SPACE>>, <<"/", "/", SPACE, "$", "(", "N", "o",
        ")">>, <<"c", SPACE, "$", "(", "B", "i", "n", ")", SPACE, ";", SPACE, "d">>, <<"c",
        SPACE, "$", "(", "N", "o", ")">>,
      <<"c", SPACE, "$", "(", "3", ")">>, <<"c", SPACE, "$", "(", "B", "i", "n", ")", "$",
          "(", "N", "o", ")">>, <<"a", SPACE, ";">>,
      <<"c", SPACE, "$", "(", "N", "o", ")", SPACE, "$", "(", "3", ")">> }
RECURSIVE JoinLines(_)
JoinLines(ls) ==
    IF ls = <<>> THEN <<>> ELSE Head(ls) \o <<"\n">> \o JoinLines(Tail(ls))
LineScripts == {JoinLines(ls) : ls \in SeqsUpTo(LineChoices, MaxLines)}

\* the inputs of the tests of parser.rs (paths shortened)
ExampleScripts ==
    { <<"i", "d", "e", "n", "t", SPACE, "v", "$", "(", "V", "e", "r", "s", "i", "o", "n",
        ")", SPACE, "$", "(", "B", "i", "n", ")", ".", "e", "x", "e">>,
      <<"i", "d", "e", "n", "t", SPACE, "v", "$", "(", "1", ")", SPACE, "$", "(", "2", ")",
          ".", "e", "x", "e">>,
      <<"c", "a", "t", SPACE, "f", SPACE, "|", SPACE, "r", "g", SPACE, QUOTE, "|", QUOTE,
          SPACE, "|", SPACE, "h", "e", "a", "d", SPACE, "5">>,
      <<"c", "a", "t", SPACE, "f", SPACE, "|", SPACE, "r", "g", SPACE, "m", SPACE, "|",
          SPACE, "h", "e", "a", "d", SPACE, "5", SPACE, ">", SPACE, "o", "u", "t", ".",
          "t", "x", "t">>,
      <<"-", SPACE, "c", "a", "t", SPACE, "f", SPACE, "|", SPACE, "r", "g", SPACE, "m",
          SPACE, "|", SPACE, "h", "e", "a", "d", SPACE, "5", SPACE, ">", SPACE, "o", "u",
          "t", ".", "t", "x", "t">>,
      <<"\n", "\n", SPACE, SPACE, "o", "n", "e", "\n", "\n", "\n", SPACE, SPACE, "t", "w",
          "o", "\n", "\n", SPACE, SPACE, "t", "h", "r", "e", "e", "\n", SPACE, SPACE, "\n",
          SPACE, SPACE>>,
      <<"a", SPACE, ";", SPACE, "-", SPACE, "b">>,
      <<"r", "g", SPACE, QUOTE, "a", SPACE, "|", SPACE, "b", QUOTE, SPACE, "f">>,
      <<"a", SPACE, ">", SPACE, "b", SPACE, "|", SPACE, "c", SPACE, "d">> }

\* the environments of the tests of parser.rs, and the empty one
EnvTest ==
    [named |-> [n \in {<<"V", "e", "r", "s", "i", "o", "n">>, <<"B", "i", "n">>} |->
                  IF n = <<"B", "i", "n">> THEN <<"b", "i", "n", "a", "r",
                      "y">> ELSE <<"0", ".", "3", ".", "0">>],
     positional |-> << <<"0", ".", "3", ".", "0">>, <<"b", "i", "n", "a", "r", "y">> >>]
EnvEmpty == [named |-> EmptyMap, positional |-> <<>>]
\* the environment of `-3 x`: a named value whose name is a number
EnvDigitName == [named |-> [n \in {<<"3">>} |-> <<"x">>], positional |-> <<>>]

InitParse ==
    /\ \/ /\ input \in StructureScripts
          /\ named = EnvEmpty.named /\ positional = EnvEmpty.positional
          /\ overflow_checks = TRUE
       \/ /\ input \in ArgScripts \cup LineScripts \cup ExampleScripts
          /\ \E e \in {EnvTest, EnvEmpty, EnvDigitName} :
                named = e.named /\ positional = e.positional
          /\ overflow_checks \in BOOLEAN
    /\ lines = StrLines(input)
    /\ collected = <<>>
    /\ result = [kind |-> "pending"]
    /\ src = <<>>
    /\ SplitIdle
    /\ EnvIdle
    /\ MainIdle
    /\ ExecIdle

\* the closure's result r for the first line, of the given kind, taken:
\* Ok is kept for the final flatten, anything else ends parse
ParseTake(r, kind) ==
    /\ r.kind = kind
    /\ lines' = Tail(lines)
    /\ collected' = IF r.kind = "ok" THEN Append(collected, r.val) ELSE collected
    /\ result' = IF r.kind = "ok" THEN result ELSE r
    /\ UNCHANGED <<execVars, mainVars, input, splitVars, envVars, overflow_checks>>

\* .filter(|s| !s.is_empty()): a line that is empty once trimmed is dropped
ParseBlankLine ==
    /\ result.kind = "pending" /\ lines # <<>>
    /\ Trim(Head(lines)) = <<>>
    /\ lines' = Tail(lines)
    /\ UNCHANGED <<execVars, mainVars, input, splitVars, envVars, overflow_checks, collected, result>>

\* a line that starts with `//`
ParseCommentLine ==
    /\ result.kind = "pending" /\ lines # <<>>
    /\ IsComment(Trim(Head(lines)))
    /\ ParseTake(ParseLine(Trim(Head(lines)), named, positional, overflow_checks),
                 "ok")

\* a line whose fragments all parse
ParsePipelineLine ==
    /\ result.kind = "pending" /\ lines # <<>>
    /\ Trim(Head(lines)) # <<>> /\ ~IsComment(Trim(Head(lines)))
    /\ ParseTake(ParseLine(Trim(Head(lines)), named, positional, overflow_checks),
                 "ok")

\* a line with a fragment that fails: collect() ends and `?` returns the Err
ParseLineFails ==
    /\ result.kind = "pending" /\ lines # <<>>
    /\ Trim(Head(lines)) # <<>>
    /\ ParseTake(ParseLine(Trim(Head(lines)), named, positional, overflow_checks),
                 "err")

\* a line with an argument whose index computation panics
ParseLinePanics ==
    /\ result.kind = "pending" /\ lines # <<>>
    /\ Trim(Head(lines)) # <<>>
    /\ ParseTake(ParseLine(Trim(Head(lines)), named, positional, overflow_checks),
                 "panic")

\* every line is taken: Ok(items), the per-line vectors flattened
ParseReturn ==
    /\ result.kind = "pending" /\ lines = <<>>
    /\ result' = Ok(Flatten(collected))
    /\ UNCHANGED <<execVars, mainVars, input, splitVars, envVars, overflow_checks, lines, collected>>

NextParse ==
    \/ ParseBlankLine
    \/ ParseCommentLine
    \/ ParsePipelineLine
    \/ ParseLineFails
    \/ ParseLinePanics
    \/ ParseReturn

SpecParse == InitParse /\ [][NextParse]_vars

\* the stepwise run and the function agree on what parse returns
ParseStepsAgree ==
    result.kind # "pending" =>
        result = ItemParser_parse(input, named, positional, overflow_checks)

-----------------------------------------------------------------------------
(* main.rs: the interpreter as it is built, with the SplitWords and the
   ItemParser that main.rs itself defines *)

\* SplitWords::next of main.rs (lines 358-386).  lines 364-369: the inner
\* loop after an opening quote; a backslash is an ordinary character
RECURSIVE main_QuotedSpan(_, _)
main_QuotedSpan(s, word) ==
    IF s = <<>> THEN [closed |-> FALSE, word |-> word, rest |-> <<>>]
    ELSE IF Head(s) = QUOTE
      THEN [closed |-> TRUE, word |-> word, rest |-> Tail(s)]
    ELSE main_QuotedSpan(Tail(s), Append(word, Head(s)))

\* lines 381-385
main_EndOfSource(word) ==
    [item |-> IF word = <<>> THEN None ELSE Some(word), rest |-> <<>>]

\* `return Some(word)` at the closing quote; without one the opening quote
\* is pushed (line 379) and the outer loop finds the source exhausted
main_AfterQuotedSpan(q) ==
    IF q.closed THEN [item |-> Some(q.word), rest |-> q.rest]
    ELSE main_EndOfSource(Append(q.word, QUOTE))

RECURSIVE main_NextWord(_, _)
main_NextWord(s, word) ==
    IF s = <<>> THEN main_EndOfSource(word)
    ELSE IF Head(s) = QUOTE
      THEN main_AfterQuotedSpan(main_QuotedSpan(Tail(s), word))
    ELSE IF IsWhitespace(Head(s))
      THEN IF word = <<>>
             THEN main_NextWord(Tail(s), word)
             ELSE [item |-> Some(word), rest |-> Tail(s)]
    ELSE main_NextWord(Tail(s), Append(word, Head(s)))

RECURSIVE main_WordsFrom(_)
main_WordsFrom(r) ==
    IF r.item.some
      THEN <<r.item.val>> \o main_WordsFrom(main_NextWord(r.rest, <<>>))
      ELSE <<>>
\* SplitWords { src: s.chars() } run to its end
main_CollectWords(s) == main_WordsFrom(main_NextWord(s, <<>>))

\* lines 273-279: `self.env.positional.get(index - 1)`, digit the character
\* index was parsed from
main_PositionalValue(index, digit, pos, checks) ==
    IF index = 0 /\ checks THEN Panic
    ELSE IF index >= 1 /\ index <= Len(pos) THEN Ok(pos[index])
    ELSE Err(<<"no positional argument given for $">> \o <<digit>>)

\* lines 281-290: parts the pieces of arg.split('$')
main_NamedValue(parts, nm) ==
    IF Trim(parts[2]) \in DOMAIN nm
      THEN Ok(parts[1] \o nm[Trim(parts[2])])
      ELSE Err(<<"no value specified for named argument: ">> \o Trim(parts[2]))

\* the closure of lines 258-295.  `arg.chars().skip(1).next().unwrap()`
\* panics on an argument of one character
main_parse_argument(arg, nm, pos, checks) ==
    IF ~Contains(arg, "$") THEN Ok(arg)
    ELSE IF Len(arg) < 2 THEN Panic
    ELSE IF IsDigit(arg[2])
      THEN main_PositionalValue(DigitValue(arg[2]), arg[2], pos, checks)
    ELSE main_NamedValue(SplitStr(arg, <<"$">>), nm)

RECURSIVE main_ParseArguments(_, _, _, _)
main_ParseArguments(args, nm, pos, checks) ==
    IF args = <<>> THEN Ok(<<>>)
    ELSE ConsResult(main_parse_argument(Head(args), nm, pos, checks),
                    main_ParseArguments(Tail(args), nm, pos, checks))

\* lines 252-302: the words of one `|`-separated piece to a Cmd
main_CmdOfWords(ws, nm, pos, checks) ==
    IF ws = <<>> THEN Err(<<"empty command">>)
    ELSE NamedCmd(Head(ws), main_ParseArguments(Tail(ws), nm, pos, checks))

RECURSIVE main_ParseCmds(_, _, _, _)
main_ParseCmds(raws, nm, pos, checks) ==
    IF raws = <<>> THEN Ok(<<>>)
    ELSE ConsResult(main_CmdOfWords(main_CollectWords(Head(raws)), nm, pos, checks),
                    main_ParseCmds(Tail(raws), nm, pos, checks))

\* lines 305-308
main_PipelineItem(fragment, cmds) ==
    IF cmds.kind # "ok" THEN cmds
    ELSE Ok([type |-> "Pipeline", cmds |-> cmds.val, literal |-> Trim(fragment)])

\* fn parse_pipeline(&self, fragment: &str) -> Result<Item, String>
main_parse_pipeline(fragment, nm, pos, checks) ==
    main_PipelineItem(fragment,
                      main_ParseCmds(SplitStr(fragment, <<"|">>), nm, pos, checks))

RECURSIVE main_ParsePipelines(_, _, _, _)
main_ParsePipelines(frags, nm, pos, checks) ==
    IF frags = <<>> THEN Ok(<<>>)
    ELSE ConsResult(main_parse_pipeline(Head(frags), nm, pos, checks),
                    main_ParsePipelines(Tail(frags), nm, pos, checks))

\* the closure of lines 230-240 on one line, as lines() gave it
main_ParseLine(line, nm, pos, checks) ==
    IF StartsWith(line, <<"/", "/">>)
      THEN Ok(<<[type |-> "Comment", text |-> line]>>)
      ELSE main_ParsePipelines(SplitStr(line, <<";">>), nm, pos, checks)

\* (mutation of main_ParseLines: a line that does not parse is left out and
\* the lines that parse are returned)
RECURSIVE main_ParseLines_SkipsFailures(_, _, _, _)
main_ParseLines_SkipsFailures(ls, nm, pos, checks) ==
    IF ls = <<>> THEN Ok(<<>>)
    ELSE IF main_ParseLine(Head(ls), nm, pos, checks).kind # "ok"
      THEN main_ParseLines_SkipsFailures(Tail(ls), nm, pos, checks)
    ELSE ConsResult(main_ParseLine(Head(ls), nm, pos, checks),
                    main_ParseLines_SkipsFailures(Tail(ls), nm, pos, checks))

\* .collect::<Result<Vec<Vec<Item>>, String>>() of line 241: line by line,
\* ending at the first line that fails
RECURSIVE main_ParseLines(_, _, _, _)
main_ParseLines(ls, nm, pos, checks) ==
    IF ls = <<>> THEN Ok(<<>>)
    ELSE ConsResult(main_ParseLine(Head(ls), nm, pos, checks),
                    main_ParseLines(Tail(ls), nm, pos, checks))

\* `?`, then .into_iter().flatten().collect() (lines 241-244)
main_Flattened(r) == IF r.kind # "ok" THEN r ELSE Ok(Flatten(r.val))

\* fn parse(&self, s: &str) -> Result<Vec<Item>, String>
main_parse(s, nm, pos, checks) ==
    main_Flattened(main_ParseLines(StrLines(s), nm, pos, checks))

\* impl fmt::Display for Cmd: "{} {}", name, args.join(" ")
RECURSIVE main_Join(_)
main_Join(args) ==
    IF args = <<>> THEN <<>>
    ELSE IF Len(args) = 1 THEN Head(args)
    ELSE Head(args) \o <<SPACE>> \o main_Join(Tail(args))
main_Display(cmd) == cmd.name \o <<SPACE>> \o main_Join(cmd.args)

\* what the run does to the world, as the entries of `effects`
Printed(text) == [op |-> "print", text |-> text]
Removed(pattern) == [op |-> "rm", text |-> pattern]
Spawned(child) == [op |-> "spawn", text |-> child.name,
                   stdin |-> child.stdin, stdout |-> child.stdout]
Waited(child) == [op |-> "wait", text |-> child.name]

\* the process of lines 134-150: stdin the stdout of prev or inherited,
\* stdout a pipe when another command follows
ChildOf(cmd, previous, more) ==
    [name |-> cmd.name, args |-> cmd.args,
     stdin |-> IF previous.some THEN "pipe" ELSE "inherit",
     stdout |-> IF more THEN "piped" ELSE "inherit"]

-----------------------------------------------------------------------------
(* Spec: main, from the parse of the run file to the end of the run *)

MaxMainLines == 2

\* the lines of the run files
MainLineChoices ==
    { <<"e", "c", "h", "o", SPACE, "h", "i">>, <<"-", SPACE, "n", "o", "s", "u", "c",
        "h">>, <<"r", "m", SPACE, "a", SPACE, "b">>, <<"c", "a", "t", SPACE, "f", SPACE,
        "|", SPACE, "r", "m", SPACE, "t", SPACE, "|", SPACE, "h", "e", "a", "d">>,
      <<"/", "/", SPACE, "n", "o", "t", "e">>, <<"l", "s", SPACE, "$", "1">>, <<"x", SPACE,
          "v", "$", "N", "o">>, <<"x", SPACE, "$">>, <<"l", "s", SPACE, "$", "0">>, <<>> }
MainScripts == {JoinLines(ls) : ls \in SeqsUpTo(MainLineChoices, MaxMainLines)}

\* main at line 79: the run file is read, the flags are consumed and the
\* environment is parsed
Init ==
    /\ input \in MainScripts
    /\ dry_run \in BOOLEAN
    /\ overflow_checks \in BOOLEAN
    /\ \E e \in {EnvTest, EnvEmpty} :
          named = e.named /\ positional = e.positional
    /\ pc = "parse"
    /\ itemsLeft = <<>>
    /\ itemNow = None
    /\ cmdsLeft = <<>>
    /\ prevChild = None
    /\ effects = <<>>
    /\ src = <<>>
    /\ SplitIdle
    /\ EnvIdle
    /\ lines = <<>> /\ collected = <<>> /\ result = [kind |-> "idle"]
    /\ ExecIdle

notMain == <<input, splitVars, envVars, parseVars, execVars>>

\* lines 79-82: parse returned Ok and unwrap gives the items
MainParse ==
    /\ pc = "parse"
    /\ main_parse(input, named, positional, overflow_checks).kind = "ok"
    /\ itemsLeft' = main_parse(input, named, positional, overflow_checks).val
    /\ pc' = "items"
    /\ UNCHANGED <<notMain, dry_run, itemNow, cmdsLeft, prevChild, effects>>

\* lines 79-82: parse returned Err and unwrap panics
MainParseFails ==
    /\ pc = "parse"
    /\ main_parse(input, named, positional, overflow_checks).kind = "err"
    /\ pc' = "parse_panicked"
    /\ UNCHANGED <<notMain, dry_run, itemsLeft, itemNow, cmdsLeft, prevChild, effects>>

\* parse itself panicked (line 269 or line 273)
MainParsePanics ==
    /\ pc = "parse"
    /\ main_parse(input, named, positional, overflow_checks).kind = "panic"
    /\ pc' = "parse_panicked"
    /\ UNCHANGED <<notMain, dry_run, itemsLeft, itemNow, cmdsLeft, prevChild, effects>>

\* lines 91-93 and 107-109: a comment is printed, in a dry run or not
PrintComment ==
    /\ pc = "items" /\ itemsLeft # <<>>
    /\ Head(itemsLeft).type = "Comment"
    /\ effects' = Append(effects, Printed(Head(itemsLeft).text))
    /\ itemsLeft' = Tail(itemsLeft)
    /\ UNCHANGED <<notMain, dry_run, pc, itemNow, cmdsLeft, prevChild>>

\* lines 94-101: a dry run prints the commands of a pipeline
DryRunPipeline ==
    /\ pc = "items" /\ itemsLeft # <<>> /\ dry_run
    /\ Head(itemsLeft).type = "Pipeline"
    /\ effects' = effects \o [j \in 1..Len(Head(itemsLeft).cmds) |->
                                Printed(main_Display(Head(itemsLeft).cmds[j]))]
    /\ itemsLeft' = Tail(itemsLeft)
    /\ UNCHANGED <<notMain, dry_run, pc, itemNow, cmdsLeft, prevChild>>

\* lines 110-115: the run enters a pipeline
RunPipeline ==
    /\ pc = "items" /\ itemsLeft # <<>> /\ ~dry_run
    /\ Head(itemsLeft).type = "Pipeline"
    /\ itemNow' = Some(Head(itemsLeft))
    /\ itemsLeft' = Tail(itemsLeft)
    /\ cmdsLeft' = Head(itemsLeft).cmds
    /\ prevChild' = None
    /\ pc' = "cmds"
    /\ UNCHANGED <<notMain, dry_run, effects>>

\* lines 116-132: rm, every argument removed
RunRm ==
    /\ pc = "cmds" /\ cmdsLeft # <<>>
    /\ Head(cmdsLeft).name = <<"r", "m">>
    /\ effects' = Append(effects, Printed(main_Display(Head(cmdsLeft))))
                    \o [k \in 1..Len(Head(cmdsLeft).args) |-> Removed(Head(cmdsLeft).args[k])]
    /\ cmdsLeft' = Tail(cmdsLeft)
    /\ UNCHANGED <<notMain, dry_run, pc, itemsLeft, itemNow, prevChild>>

\* lines 125-131: rm fails on its k-th argument, after the ones before it
\* were removed, and the run panics
RunRmFails ==
    /\ pc = "cmds" /\ cmdsLeft # <<>>
    /\ Head(cmdsLeft).name = <<"r", "m">>
    /\ \E k \in 1..Len(Head(cmdsLeft).args) :
          effects' = Append(effects, Printed(main_Display(Head(cmdsLeft))))
                       \o [j \in 1..(k - 1) |-> Removed(Head(cmdsLeft).args[j])]
    /\ pc' = "run_panicked"
    /\ UNCHANGED <<notMain, dry_run, itemsLeft, itemNow, cmdsLeft, prevChild>>

\* lines 116-118 and 133-152: any other command is spawned
RunSpawn ==
    /\ pc = "cmds" /\ cmdsLeft # <<>>
    /\ Head(cmdsLeft).name # <<"r", "m">>
    /\ prevChild.some => prevChild.val.stdout = "piped"
    /\ effects' = effects \o
          <<Printed(main_Display(Head(cmdsLeft))),
            Spawned(ChildOf(Head(cmdsLeft), prevChild, Tail(cmdsLeft) # <<>>))>>
    /\ prevChild' = Some(ChildOf(Head(cmdsLeft), prevChild, Tail(cmdsLeft) # <<>>))
    /\ cmdsLeft' = Tail(cmdsLeft)
    /\ UNCHANGED <<notMain, dry_run, pc, itemsLeft, itemNow>>

\* the command is printed and then the run panics: the stdout of prev is
\* not there to unwrap (line 135), the current directory cannot be fetched
\* (line 145), or spawn returns Err (lines 153-155)
RunSpawnFails ==
    /\ pc = "cmds" /\ cmdsLeft # <<>>
    /\ Head(cmdsLeft).name # <<"r", "m">>
    /\ effects' = Append(effects, Printed(main_Display(Head(cmdsLeft))))
    /\ pc' = "run_panicked"
    /\ UNCHANGED <<notMain, dry_run, itemsLeft, itemNow, cmdsLeft, prevChild>>

\* lines 160-162: the last process spawned is waited for
RunWait ==
    /\ pc = "cmds" /\ cmdsLeft = <<>>
    /\ prevChild.some
    /\ effects' = Append(effects, Waited(prevChild.val))
    /\ pc' = "items"
    /\ UNCHANGED <<notMain, dry_run, itemsLeft, itemNow, cmdsLeft, prevChild>>

\* line 160: nothing was spawned, nothing is waited for
RunNoWait ==
    /\ pc = "cmds" /\ cmdsLeft = <<>>
    /\ ~prevChild.some
    /\ pc' = "items"
    /\ UNCHANGED <<notMain, dry_run, itemsLeft, itemNow, cmdsLeft, prevChild, effects>>

\* the loop over the items ends and main returns
MainReturn ==
    /\ pc = "items" /\ itemsLeft = <<>>
    /\ pc' = "done"
    /\ UNCHANGED <<notMain, dry_run, itemsLeft, itemNow, cmdsLeft, prevChild, effects>>

Next ==
    \/ MainParse
    \/ MainParseFails
    \/ MainParsePanics
    \/ PrintComment
    \/ DryRunPipeline
    \/ RunPipeline
    \/ RunRm
    \/ RunRmFails
    \/ RunSpawn
    \/ RunSpawnFails
    \/ RunWait
    \/ RunNoWait
    \/ MainReturn

Spec == Init /\ [][Next]_vars

-----------------------------------------------------------------------------
(* pipeline.rs: Pipeline::execute *)

\* impl fmt::Display for Cmd: "{} {}", the name and the args joined by spaces
RECURSIVE JoinArgs(_)
JoinArgs(args) ==
    IF args = <<>> THEN <<>>
    ELSE IF Len(args) = 1 THEN Head(args)
    ELSE Head(args) \o <<SPACE>> \o JoinArgs(Tail(args))
Cmd_fmt(cmd) == cmd.name \o <<SPACE>> \o JoinArgs(cmd.args)

\* `{:?}` of an Option<&String>
DebugOption(o) ==
    IF o.some THEN <<"Some(", QUOTE>> \o o.val \o <<QUOTE, ")">> ELSE <<"None">>

\* the text of an error of the operating system or of glob, `e`
Cause == <<"<cause>">>

\* the arms of `match name.as_ref()`
IsRm(name) == name = <<"r", "m">>
IsCp(name) == name = <<"c", "p">>
IsExternal(name) == ~IsRm(name) /\ ~IsCp(name)

\* line 43: (args.next(), args.next())
CpArgs(args) ==
    [src |-> IF Len(args) >= 1 THEN Some(args[1]) ELSE None,
     dst |-> IF Len(args) >= 2 THEN Some(args[2]) ELSE None]

\* the values of Stdio
Inherit == [kind |-> "inherit"]
Piped == [kind |-> "piped"]
PipeOf(p) == [kind |-> "pipe", of |-> p]
FileAt(path) == [kind |-> "file", path |-> path]

\* a stdin that is never connected to the process before
ChildStdin_AlwaysInherit(previous, children) == Ok(Inherit)

\* lines 56-58: stdin is inherited when prev is None; otherwise the Child is
\* moved out of prev and its stdout is unwrapped, which panics on None
ChildStdin(previous, children) ==
    IF ~previous.some THEN Ok(Inherit)
    ELSE IF children[previous.val].stdout_handle THEN Ok(PipeOf(previous.val))
    ELSE Panic

\* a stdout that is never a pipe
ChildStdout_NeverPiped(more, terminus) ==
    IF terminus.some THEN FileAt(terminus.val) ELSE Inherit

\* lines 60-70: stdout is a new pipe when the iterator has another command,
\* else the terminus file when there is one, else inherited
ChildStdout(more, terminus) ==
    IF more THEN Piped
    ELSE IF terminus.some THEN FileAt(terminus.val)
    ELSE Inherit

\* lines 72-80: the Child that spawn returns; Child.stdout is Some exactly
\* when the process was given Stdio::piped()
Child(cmd, stdin, stdout) ==
    [name |-> cmd.name, args |-> cmd.args, stdin |-> stdin, stdout |-> stdout,
     stdout_handle |-> (stdout = Piped), exited |-> FALSE, status |-> None]

\* a wait() that returns at once
Completed_Always(child) == TRUE

\* line 88: wait() returns once the process has completed
Completed(child) == child.exited

\* what execute does to the world, as the entries of `trace`; k is the
\* position of the command in the pipeline
Echoed(k) == [op |-> "echo", k |-> k]
RmDone(k, pattern) == [op |-> "rm", k |-> k, text |-> pattern]
Copied(k, from, to) == [op |-> "cp", k |-> k, text |-> from, to |-> to]
Created(k, path) == [op |-> "create", k |-> k, text |-> path]
SpawnedAs(k, p) == [op |-> "spawn", k |-> k, proc |-> p]
WaitedFor(p) == [op |-> "wait", proc |-> p]
Failed(k, what) == [op |-> "fail", k |-> k, text |-> what]

\* line 64: File::create(terminus) has run when stdout is the terminus file
Opened(k, stdout) ==
    IF stdout.kind = "file" THEN <<Created(k, stdout.path)>> ELSE <<>>

-----------------------------------------------------------------------------
(* SpecExec: execute on one Item, one step of the loop body per action, with
   the spawned processes completing on their own *)

MaxCmds == 3

ExecCmds ==
    { [name |-> <<"a">>, args |-> <<>>],
      [name |-> <<"b">>, args |-> << <<"x">> >>],
      [name |-> <<"r", "m">>, args |-> << <<"x">> >>],
      [name |-> <<"r", "m">>, args |-> << <<"x">>, <<"y">> >>],
      [name |-> <<"c", "p">>, args |-> <<>>],
      [name |-> <<"c", "p">>, args |-> << <<"x">> >>],
      [name |-> <<"c", "p">>, args |-> << <<"x">>, <<"y">> >>],
      [name |-> <<"c", "p">>, args |-> << <<"x">>, <<"y">>, <<"z">> >>] }

\* the literal of the pipeline `cs` with the terminus `t`
RECURSIVE ExecLiteral(_, _)
ExecLiteral(cs, t) ==
    (IF Head(cs).args = <<>> THEN Head(cs).name ELSE Cmd_fmt(Head(cs)))
    \o (IF Len(cs) > 1 THEN <<SPACE, "|", SPACE>> \o ExecLiteral(Tail(cs), t)
        ELSE IF t.some THEN <<SPACE, ">", SPACE>> \o t.val
        ELSE <<>>)

ExecItems ==
    { [type |-> "Pipeline", cmds |-> cs, terminus |-> t,
       ignore_failure |-> FALSE, literal |-> ExecLiteral(cs, t)] :
        cs \in SeqsUpTo(ExecCmds, MaxCmds) \ {<<>>}, t \in {None, Some(<<"o">>)} }
    \cup { [type |-> "Comment", text |-> <<"/", "/", SPACE, "n", "o", "t", "e">>] }

InitExec ==
    /\ self \in ExecItems
    /\ cmdIter = <<>>
    /\ cmdNow = None
    /\ prevProc = None
    /\ stdinNow = None
    /\ procs = <<>>
    /\ sink = <<>>
    /\ trace = <<>>
    /\ epc = "start"
    /\ ret = [kind |-> "pending"]
    /\ input = <<>>
    /\ src = <<>>
    /\ named = EmptyMap
    /\ positional = <<>>
    /\ SplitIdle
    /\ EnvIdle
    /\ ParseIdle
    /\ MainIdle

notExec == <<input, splitVars, envVars, parseVars, mainVars>>

\* the position in the pipeline of the command the loop has taken
Position == Len(self.cmds) - Len(cmdIter)

\* an error that is noted and does not end the loop
Fail_Continues(msg) == epc' = "loop" /\ ret' = Err(msg)

\* `?` and `return Err(..)`: execute returns the error
Fail(msg) == epc' = "returned" /\ ret' = Err(msg)

\* lines 22-24: the Item is a Pipeline
ExecBegin ==
    /\ epc = "start" /\ self.type = "Pipeline"
    /\ cmdIter' = self.cmds
    /\ prevProc' = None
    /\ epc' = "loop"
    /\ UNCHANGED <<notExec, self, cmdNow, stdinNow, procs, sink, trace, ret>>

\* lines 22 and 92: any other Item, nothing is done
ExecComment ==
    /\ epc = "start" /\ self.type # "Pipeline"
    /\ epc' = "returned"
    /\ ret' = Ok(<<>>)
    /\ UNCHANGED <<notExec, self, cmdIter, cmdNow, prevProc, stdinNow, procs, sink, trace>>

\* lines 26-28: the next command is taken and its line is written
ExecEcho ==
    /\ epc = "loop" /\ cmdIter # <<>>
    /\ cmdNow' = Some(Head(cmdIter))
    /\ cmdIter' = Tail(cmdIter)
    /\ sink' = Append(sink, Cmd_fmt(Head(cmdIter)) \o <<"\n">>)
    /\ trace' = Append(trace, Echoed(Position + 1))
    /\ epc' = "match"
    /\ UNCHANGED <<notExec, self, prevProc, stdinNow, procs, ret>>

\* line 27: the write fails
ExecEchoFails ==
    /\ epc = "loop" /\ cmdIter # <<>>
    /\ cmdNow' = Some(Head(cmdIter))
    /\ cmdIter' = Tail(cmdIter)
    /\ trace' = Append(trace, Failed(Position + 1, "write"))
    /\ Fail(Cause)
    /\ UNCHANGED <<notExec, self, prevProc, stdinNow, procs, sink>>

\* lines 35-40: rm, every pattern expanded and its matches removed
ExecRm ==
    /\ epc = "match" /\ IsRm(cmdNow.val.name)
    /\ trace' = trace \o [j \in 1..Len(cmdNow.val.args) |->
                            RmDone(Position, cmdNow.val.args[j])]
    /\ epc' = "loop"
    /\ UNCHANGED <<notExec, self, cmdIter, cmdNow, prevProc, stdinNow, procs, sink, ret>>

\* lines 35-40: the expansion or a removal fails at the j-th pattern, after
\* the patterns before it were done
ExecRmFails ==
    /\ epc = "match" /\ IsRm(cmdNow.val.name)
    /\ \E j \in 1..Len(cmdNow.val.args) :
          trace' = trace \o [i \in 1..(j - 1) |-> RmDone(Position, cmdNow.val.args[i])]
                         \o <<Failed(Position, "rm")>>
    /\ Fail(<<"rm ">> \o JoinArgs(cmdNow.val.args) \o <<": ">> \o Cause)
    /\ UNCHANGED <<notExec, self, cmdIter, cmdNow, prevProc, stdinNow, procs, sink>>

\* lines 41-47: cp, the first argument is copied to the second
ExecCp ==
    /\ epc = "match" /\ IsCp(cmdNow.val.name)
    /\ CpArgs(cmdNow.val.args).src.some /\ CpArgs(cmdNow.val.args).dst.some
    /\ trace' = Append(trace, Copied(Position, CpArgs(cmdNow.val.args).src.val,
                                     CpArgs(cmdNow.val.args).dst.val))
    /\ epc' = "loop"
    /\ UNCHANGED <<notExec, self, cmdIter, cmdNow, prevProc, stdinNow, procs, sink, ret>>

\* line 46: the copy fails
ExecCpFails ==
    /\ epc = "match" /\ IsCp(cmdNow.val.name)
    /\ CpArgs(cmdNow.val.args).src.some /\ CpArgs(cmdNow.val.args).dst.some
    /\ trace' = Append(trace, Failed(Position, "cp"))
    /\ Fail(<<"cp ">> \o CpArgs(cmdNow.val.args).src.val \o <<SPACE>>
              \o CpArgs(cmdNow.val.args).dst.val \o <<": ">> \o Cause)
    /\ UNCHANGED <<notExec, self, cmdIter, cmdNow, prevProc, stdinNow, procs, sink>>

\* lines 48-52: the first or the second argument is missing
ExecCpInvalid ==
    /\ epc = "match" /\ IsCp(cmdNow.val.name)
    /\ ~(CpArgs(cmdNow.val.args).src.some /\ CpArgs(cmdNow.val.args).dst.some)
    /\ trace' = Append(trace, Failed(Position, "cp arguments"))
    /\ Fail(<<"cp: invalid arguments: ">> \o DebugOption(CpArgs(cmdNow.val.args).src)
              \o <<SPACE>> \o DebugOption(CpArgs(cmdNow.val.args).dst))
    /\ UNCHANGED <<notExec, self, cmdIter, cmdNow, prevProc, stdinNow, procs, sink>>

\* lines 56-58: stdin of an external command; the Child is moved out of prev
\* and its stdout handle is taken, or the unwrap panics
ExecStdin ==
    /\ epc = "match" /\ IsExternal(cmdNow.val.name)
    /\ IF ChildStdin(prevProc, procs).kind = "panic"
       THEN /\ epc' = "panicked"
            /\ UNCHANGED <<stdinNow, procs, prevProc>>
       ELSE /\ stdinNow' = Some(ChildStdin(prevProc, procs).val)
            /\ procs' = IF prevProc.some
                        THEN [procs EXCEPT ![prevProc.val].stdout_handle = FALSE]
                        ELSE procs
            /\ prevProc' = None
            /\ epc' = "stdout"
    /\ UNCHANGED <<notExec, self, cmdIter, cmdNow, sink, trace, ret>>

\* lines 63-66: the terminus file cannot be created
ExecTerminusFails ==
    /\ epc = "stdout"
    /\ ChildStdout(cmdIter # <<>>, self.terminus).kind = "file"
    /\ trace' = Append(trace, Failed(Position, "terminus"))
    /\ Fail(<<"opening terminus file: ">> \o Cause)
    /\ UNCHANGED <<notExec, self, cmdIter, cmdNow, prevProc, stdinNow, procs, sink>>

\* lines 73-75: stdout is ready and the current directory cannot be fetched
ExecCwdFails ==
    /\ epc = "stdout"
    /\ trace' = trace \o Opened(Position, ChildStdout(cmdIter # <<>>, self.terminus))
                      \o <<Failed(Position, "cwd")>>
    /\ Fail(<<"fetching current working directory: ">> \o Cause)
    /\ UNCHANGED <<notExec, self, cmdIter, cmdNow, prevProc, stdinNow, procs, sink>>

\* lines 72-80: spawn returns Err
ExecSpawnFails ==
    /\ epc = "stdout"
    /\ trace' = trace \o Opened(Position, ChildStdout(cmdIter # <<>>, self.terminus))
                      \o <<Failed(Position, "spawn")>>
    /\ Fail(cmdNow.val.name \o <<": ">> \o Cause)
    /\ UNCHANGED <<notExec, self, cmdIter, cmdNow, prevProc, stdinNow, procs, sink>>

\* lines 60-82: the process is spawned and becomes prev
ExecSpawn ==
    /\ epc = "stdout"
    /\ procs' = Append(procs, Child(cmdNow.val, stdinNow.val,
                                    ChildStdout(cmdIter # <<>>, self.terminus)))
    /\ trace' = trace \o Opened(Position, ChildStdout(cmdIter # <<>>, self.terminus))
                      \o <<SpawnedAs(Position, Len(procs) + 1)>>
    /\ prevProc' = Some(Len(procs) + 1)
    /\ stdinNow' = None
    /\ epc' = "loop"
    /\ UNCHANGED <<notExec, self, cmdIter, cmdNow, sink, ret>>

\* lines 26 and 87: the iterator is empty and prev is Some
ExecFinish ==
    /\ epc = "loop" /\ cmdIter = <<>>
    /\ prevProc.some
    /\ epc' = "wait"
    /\ UNCHANGED <<notExec, self, cmdIter, cmdNow, prevProc, stdinNow, procs, sink, trace, ret>>

\* lines 87 and 92: the iterator is empty and prev is None
ExecNoWait ==
    /\ epc = "loop" /\ cmdIter = <<>>
    /\ ~prevProc.some
    /\ epc' = "returned"
    /\ ret' = Ok(<<>>)
    /\ UNCHANGED <<notExec, self, cmdIter, cmdNow, prevProc, stdinNow, procs, sink, trace>>

\* lines 88-92: wait() returns, its result is dropped by ok(), Ok(()) is
\* returned
ExecWait ==
    /\ epc = "wait"
    /\ Completed(procs[prevProc.val])
    /\ trace' = Append(trace, WaitedFor(prevProc.val))
    /\ epc' = "returned"
    /\ ret' = Ok(<<>>)
    /\ UNCHANGED <<notExec, self, cmdIter, cmdNow, prevProc, stdinNow, procs, sink>>

\* a spawned process completes, with any exit status
ProcExit ==
    /\ \E p \in 1..Len(procs), s \in {0, 1} :
          /\ ~procs[p].exited
          /\ procs' = [procs EXCEPT ![p].exited = TRUE, ![p].status = Some(s)]
    /\ UNCHANGED <<notExec, self, cmdIter, cmdNow, prevProc, stdinNow, sink, trace, epc, ret>>

NextExec ==
    \/ ExecBegin
    \/ ExecComment
    \/ ExecEcho
    \/ ExecEchoFails
    \/ ExecRm
    \/ ExecRmFails
    \/ ExecCp
    \/ ExecCpFails
    \/ ExecCpInvalid
    \/ ExecStdin
    \/ ExecTerminusFails
    \/ ExecCwdFails
    \/ ExecSpawnFails
    \/ ExecSpawn
    \/ ExecFinish
    \/ ExecNoWait
    \/ ExecWait
    \/ ProcExit

SpecExec == InitExec /\ [][NextExec]_vars

-----------------------------------------------------------------------------
(* Properties of SplitWords *)

\* A character-by-character scanner with an explicit mode, used to state what
\* the tokens of an input are.  i: position; inq: inside a quoted span; buf:
\* the token being collected; has: a token is being collected; toks: the
\* tokens so far.  With cut, an opening quote ends the run before it, so a
\* run and a quoted span are always separate tokens; without it the run
\* before an opening quote and the span form one token.
RECURSIVE Scan(_, _, _, _, _, _, _)
Scan(s, i, inq, buf, has, toks, cut) ==
    LET flushed == IF has THEN Append(toks, buf) ELSE toks IN
    IF i > Len(s) THEN [toks |-> IF inq THEN toks ELSE flushed, open |-> inq]
    ELSE IF inq
      THEN IF s[i] = BACKSLASH /\ i < Len(s) /\ s[i + 1] = QUOTE
             THEN Scan(s, i + 2, TRUE, buf \o <<BACKSLASH, QUOTE>>, TRUE, toks, cut)
           ELSE IF s[i] = QUOTE
             THEN Scan(s, i + 1, FALSE, <<>>, FALSE, Append(toks, buf), cut)
           ELSE Scan(s, i + 1, TRUE, Append(buf, s[i]), TRUE, toks, cut)
    ELSE IF s[i] = QUOTE
      THEN IF cut THEN Scan(s, i + 1, TRUE, <<>>, TRUE, flushed, cut)
                  ELSE Scan(s, i + 1, TRUE, buf, TRUE, toks, cut)
    ELSE IF IsWhitespace(s[i])
      THEN Scan(s, i + 1, FALSE, <<>>, FALSE, flushed, cut)
    ELSE Scan(s, i + 1, FALSE, Append(buf, s[i]), TRUE, toks, cut)

\* every quote that opens a span in s is closed
QuotesClosed(s) == ~Scan(s, 1, FALSE, <<>>, FALSE, <<>>, FALSE).open
\* runs and quoted spans as separate tokens
SeparateTokens(s) == Scan(s, 1, FALSE, <<>>, FALSE, <<>>, TRUE).toks
\* a run directly before an opening quote joined with the span's contents
JoinedTokens(s) == Scan(s, 1, FALSE, <<>>, FALSE, <<>>, FALSE).toks

IsPrefixOf(a, b) == Len(a) <= Len(b) /\ a = SubSeq(b, 1, Len(a))

\* C7 as stated: on an input whose quotes are all closed the iterator yields,
\* in input order, every maximal run of non-whitespace characters outside
\* quotes and the contents of every quoted span (quotes removed, whitespace
\* and \" kept) each as a token of its own, and then signals exhaustion.
C7_Original ==
    QuotesClosed(input) =>
        /\ IsPrefixOf(words, SeparateTokens(input))
        /\ exhausted => words = SeparateTokens(input)

\* C7 amended: the same, except that a run of non-whitespace characters that
\* directly precedes an opening quote is not a token of its own: it is
\* yielded together with the contents of that span as one token.
C7_Tokens ==
    QuotesClosed(input) =>
        /\ IsPrefixOf(words, JoinedTokens(input))
        /\ exhausted => words = JoinedTokens(input)

\* the input a"\""a : a run joined to a span holding an escaped quote, then a
\* token after the span, then exhaustion
C7_Witness ==
    /\ exhausted
    /\ input = <<"a", QUOTE, BACKSLASH, QUOTE, QUOTE, "a">>
    /\ words = << <<"a", BACKSLASH, QUOTE>>, <<"a">> >>

\* the scan of an input to its end: the tokens completed, and for a quoted
\* span left open the characters collected in the word it belongs to
RECURSIVE ScanToEnd(_, _, _, _, _)
ScanToEnd(s, i, inq, buf, toks) ==
    IF i > Len(s)
      THEN [open |-> inq, buf |-> buf,
            toks |-> IF ~inq /\ buf # <<>> THEN Append(toks, buf) ELSE toks]
    ELSE IF inq
      THEN IF s[i] = BACKSLASH /\ i < Len(s) /\ s[i + 1] = QUOTE
             THEN ScanToEnd(s, i + 2, TRUE, buf \o <<BACKSLASH, QUOTE>>, toks)
           ELSE IF s[i] = QUOTE
             THEN ScanToEnd(s, i + 1, FALSE, <<>>, Append(toks, buf))
           ELSE ScanToEnd(s, i + 1, TRUE, Append(buf, s[i]), toks)
    ELSE IF s[i] = QUOTE THEN ScanToEnd(s, i + 1, TRUE, buf, toks)
    ELSE IF IsWhitespace(s[i])
      THEN ScanToEnd(s, i + 1, FALSE, <<>>,
                     IF buf # <<>> THEN Append(toks, buf) ELSE toks)
    ELSE ScanToEnd(s, i + 1, FALSE, Append(buf, s[i]), toks)

\* C18: on an input that ends inside a quoted span the iterator yields, after
\* the tokens before it, the characters collected (those of the word before
\* the quote and those after it) as the final token, with no `"` added, and
\* then signals exhaustion.
C18_UnclosedQuote ==
    LET e == ScanToEnd(input, 1, FALSE, <<>>, <<>>) IN
    (exhausted /\ e.open) =>
        \/ words = Append(e.toks, e.buf)
        \/ e.buf = <<>> /\ words = e.toks

-----------------------------------------------------------------------------
(* Properties of Environment::from_str *)

SetMin(S) == CHOOSE x \in S : \A y \in S : x <= y
SetMax(S) == CHOOSE x \in S : \A y \in S : x >= y

\* the token starts with `-`
Dash(tok) == tok # <<>> /\ tok[1] = "-"

\* the token between its first and its last character that is not `-`
Undashed(tok) ==
    LET keep == {i \in 1..Len(tok) : tok[i] # "-"} IN
    IF keep = {} THEN <<>> ELSE SubSeq(tok, SetMin(keep), SetMax(keep))

\* the positions of a `-` token directly followed by another `-` token
DashPairs(toks) ==
    {i \in 1..(Len(toks) - 1) : Dash(toks[i]) /\ Dash(toks[i + 1])}

\* the positions of the flags that have a token after them
ValuedFlags(toks) == {i \in 1..(Len(toks) - 1) : Dash(toks[i])}

\* named, read off the token list: each flag's name maps to the token after
\* the last flag of that name
NamedOf(toks) ==
    [n \in {Undashed(toks[i]) : i \in ValuedFlags(toks)} |->
        toks[SetMax({i \in ValuedFlags(toks) : Undashed(toks[i]) = n}) + 1]]

\* positional, read off the token list: the tokens that neither start with
\* `-` nor directly follow a token that does, in their order
RECURSIVE PositionalFrom(_, _)
PositionalFrom(toks, j) ==
    IF j > Len(toks) THEN <<>>
    ELSE IF ~Dash(toks[j]) /\ (j = 1 \/ ~Dash(toks[j - 1]))
      THEN <<toks[j]>> \o PositionalFrom(toks, j + 1)
    ELSE PositionalFrom(toks, j + 1)

\* C8: from_str fails exactly when a flag is directly followed by a token
\* that starts with `-`, with the error "<flag> is missing a value" for the
\* first such flag; otherwise named maps each flag's name (the token without
\* its leading and trailing `-`) to the token after it, a flag with no token
\* after it is dropped, and positional holds exactly the tokens that are
\* neither flags nor values, in their original order.
C8_FromStr ==
    LET toks == CollectWords(input) IN
    /\ envState = "ok" =>
         /\ DashPairs(toks) = {}
         /\ named = NamedOf(toks)
         /\ positional = PositionalFrom(toks, 1)
    /\ envState = "err" =>
         /\ DashPairs(toks) # {}
         /\ envErr = toks[SetMin(DashPairs(toks))] \o <<" is missing a value">>

\* --a- "a b" b -a : a flag with dashes on both sides and a quoted value, a
\* positional token, and a trailing flag that is dropped
C8_Witness ==
    /\ envState = "ok"
    /\ CollectWords(input) =
         << <<"-", "-", "a", "-">>, <<"a", SPACE, "b">>, <<"b">>, <<"-", "a">> >>
    /\ named = [n \in {<<"a">>} |-> <<"a", SPACE, "b">>]
    /\ positional = << <<"b">> >>

-----------------------------------------------------------------------------
(* Properties of ItemParser::parse *)

\* What the script is made of, in source order: a comment line, or one
\* `;`-separated fragment of a line that is not a comment.
RECURSIVE UnitsOf(_)
UnitsOf(ls) ==
    IF ls = <<>> THEN <<>>
    ELSE IF Trim(Head(ls)) = <<>> THEN UnitsOf(Tail(ls))
    ELSE IF IsComment(Trim(Head(ls)))
      THEN <<[comment |-> TRUE, text |-> Trim(Head(ls))]>> \o UnitsOf(Tail(ls))
    ELSE LET fs == Fragments(Trim(Head(ls))) IN
         [i \in 1..Len(fs) |-> [comment |-> FALSE, frag |-> fs[i]]]
         \o UnitsOf(Tail(ls))
Units == UnitsOf(StrLines(input))

\* the words of each command of a fragment as written, before substitution
RawWordsOf(frag) ==
    LET rc == RawCommands(StripMarker(frag)).cmds IN
    [j \in 1..Len(rc) |-> CollectWords(rc[j])]

\* parse returned Items: one per unit, and per fragment one Cmd per command
\* as written, with the name as written and one argument per word after it
SameShape ==
    /\ result.kind = "ok"
    /\ Len(result.val) = Len(Units)
    /\ \A i \in 1..Len(Units) :
         IF Units[i].comment THEN result.val[i].type = "Comment"
         ELSE LET raw == RawWordsOf(Units[i].frag)
                  item == result.val[i]
              IN  /\ item.type = "Pipeline"
                  /\ Len(item.cmds) = Len(raw)
                  /\ \A j \in 1..Len(raw) :
                       /\ raw[j] # <<>>
                       /\ item.cmds[j].name = raw[j][1]
                       /\ Len(item.cmds[j].args) = Len(raw[j]) - 1

\* the (unit, command, argument) positions of a script whose parse returned Items
ArgPositions ==
    {p \in (1..Len(Units)) \X (1..8) \X (1..8) :
        /\ ~Units[p[1]].comment
        /\ p[2] <= Len(result.val[p[1]].cmds)
        /\ p[3] <= Len(result.val[p[1]].cmds[p[2]].args)}
RawArg(p) == RawWordsOf(Units[p[1]].frag)[p[2]][p[3] + 1]
ParsedArg(p) == result.val[p[1]].cmds[p[2]].args[p[3]]

\* the substitution sites of an argument: the positions of `$(`
Sites(a) == {p \in 1..(Len(a) - 1) : a[p] = "$" /\ a[p + 1] = "("}
FirstSite(a) == SetMin(Sites(a))
\* the position of the first `)` after the first site, 0 when there is none
SiteClose(a) ==
    LET cs == {q \in (FirstSite(a) + 2)..Len(a) : a[q] = ")"} IN
    IF cs = {} THEN 0 ELSE SetMin(cs)
\* the argument has the form prefix$(ident)suffix with one substitution site
OneSite(a) == Cardinality(Sites(a)) = 1 /\ SiteClose(a) # 0
SitePrefix(a) == SubSeq(a, 1, FirstSite(a) - 1)
SiteIdent(a) == SubSeq(a, FirstSite(a) + 2, SiteClose(a) - 1)
SiteSuffix(a) == SubSeq(a, SiteClose(a) + 1, Len(a))

\* ident is a decimal integer
IsInteger(ident) == ident # <<>> /\ \A i \in 1..Len(ident) : IsDigit(ident[i])
IntegerOf(ident) == DecimalValue(ident, 0)

\* the value the claim gives an ident that resolves
Resolves(ident) ==
    IF IsInteger(ident)
      THEN 1 <= IntegerOf(ident) /\ IntegerOf(ident) <= Len(positional)
      ELSE ident \in DOMAIN named
ValueOf(ident) ==
    IF IsInteger(ident) THEN positional[IntegerOf(ident)] ELSE named[ident]

\* C1: when parse returns Items, every argument of the form
\* prefix$(ident)suffix with one substitution site and an ident that resolves
\* has become prefix + value + suffix (value the N-th positional for an
\* integer ident N, the named value otherwise), every argument without `$` is
\* unchanged, and command names and argument counts are as written.
C1_Substitution ==
    result.kind = "ok" =>
        /\ SameShape
        /\ \A p \in ArgPositions :
             /\ ~Contains(RawArg(p), "$") => ParsedArg(p) = RawArg(p)
             /\ (OneSite(RawArg(p)) /\ Resolves(SiteIdent(RawArg(p)))) =>
                  ParsedArg(p) = SitePrefix(RawArg(p))
                                   \o ValueOf(SiteIdent(RawArg(p)))
                                   \o SiteSuffix(RawArg(p))

\* C3: an argument whose `$` are none followed by `(` passes through parse
\* verbatim: in a script with no empty command and no `$(` in any argument,
\* parse returns Items and every argument is as written.
NoEmptyCommand ==
    \A i \in 1..Len(Units) :
        ~Units[i].comment =>
            \A j \in 1..Len(RawWordsOf(Units[i].frag)) :
                RawWordsOf(Units[i].frag)[j] # <<>>
AllRawArgs ==
    UNION { UNION { {RawWordsOf(Units[i].frag)[j][k] :
                       k \in 2..Len(RawWordsOf(Units[i].frag)[j])} :
                    j \in 1..Len(RawWordsOf(Units[i].frag)) } :
            i \in {u \in 1..Len(Units) : ~Units[u].comment} }
C3_BareDollarVerbatim ==
    (/\ result.kind \notin {"pending", "idle"}
     /\ NoEmptyCommand
     /\ \A a \in AllRawArgs : Sites(a) = {}
     /\ \E a \in AllRawArgs : Contains(a, "$"))
    => /\ result.kind = "ok"
       /\ SameShape
       /\ \A p \in ArgPositions : ParsedArg(p) = RawArg(p)

\* every argument of the script as written, in source order
ArgsOfWords(ws) == IF ws = <<>> THEN <<>> ELSE Tail(ws)
ArgsOfUnit(u) ==
    IF u.comment THEN <<>>
    ELSE LET raw == RawWordsOf(u.frag) IN
         Concat([j \in 1..Len(raw) |-> ArgsOfWords(raw[j])])
ScriptArgs == Concat([i \in 1..Len(Units) |-> ArgsOfUnit(Units[i])])

\* the idents written as $(ident) in an argument, left to right
RECURSIVE IdentsFrom(_)
IdentsFrom(a) ==
    IF Sites(a) = {} \/ SiteClose(a) = 0 THEN <<>>
    ELSE <<SiteIdent(a)>> \o IdentsFrom(SiteSuffix(a))
ScriptIdents == Concat([k \in 1..Len(ScriptArgs) |-> IdentsFrom(ScriptArgs[k])])

\* neither a key of named nor the index of a positional value
UnresolvedAsClaimed(ident) ==
    /\ ident \notin DOMAIN named
    /\ ~(IsInteger(ident) /\ 1 <= IntegerOf(ident)
                          /\ IntegerOf(ident) <= Len(positional))

\* C2 as stated: when some $(ident) of the script is unresolved, parse fails
\* with the error naming the first unresolved ident in source order.
C2_Original ==
    result.kind \notin {"pending", "idle"} =>
        LET us == SelectSeq(ScriptIdents, UnresolvedAsClaimed) IN
        us # <<>> =>
            result = [kind |-> "err",
                      msg |-> <<"no value specified for argument: ">> \o Head(us)]

\* the ident parse_argument looks up for an argument that contains `$`: the
\* one of its first `$(`, up to the first `)` or else the end of the argument
LookedUp(a) ==
    IF Sites(a) = {} THEN <<>>
    ELSE IF SiteClose(a) = 0 THEN SubSeq(a, FirstSite(a) + 2, Len(a))
    ELSE SiteIdent(a)
\* ident reads as an unsigned integer: digits after an optional `+`
Unsigned(ident) == IF ident # <<>> /\ Head(ident) = "+" THEN Tail(ident) ELSE ident
IsUnsigned(ident) == IsInteger(Unsigned(ident))
\* an unsigned ident is looked up among the positional values only
Unresolved(ident) ==
    IF IsUnsigned(ident)
      THEN ~(1 <= IntegerOf(Unsigned(ident))
             /\ IntegerOf(Unsigned(ident)) <= Len(positional))
      ELSE ident \notin DOMAIN named

\* the places where parse can fail, in source order: a command without
\* words, and an argument with `$` whose looked-up ident is unresolved
FailureOfArg(a) ==
    IF Contains(a, "$") /\ Unresolved(LookedUp(a))
      THEN <<[kind |-> "unresolved", ident |-> LookedUp(a),
              closed |-> Sites(a) # {} /\ SiteClose(a) # 0]>>
      ELSE <<>>
FailuresOfWords(ws) ==
    IF ws = <<>> THEN <<[kind |-> "empty", ident |-> <<>>, closed |-> FALSE]>>
    ELSE Concat([k \in 1..(Len(ws) - 1) |-> FailureOfArg(ws[k + 1])])
FailuresOfUnit(u) ==
    IF u.comment THEN <<>>
    ELSE LET raw == RawWordsOf(u.frag) IN
         Concat([j \in 1..Len(raw) |-> FailuresOfWords(raw[j])])
Failures == Concat([i \in 1..Len(Units) |-> FailuresOfUnit(Units[i])])

\* C2: parse fails at the first failure in source order.  When that is an
\* argument whose first $(ident) is unresolved, parse returns no Items but
\* the error naming that ident (for an ident that reads as 0, a build with
\* overflow checks panics instead); a script without any failure place, even
\* with an unresolved $(ident) after the first one of an argument, parses.
C2_FirstUnresolved ==
    result.kind \notin {"pending", "idle"} =>
        LET fs == Failures IN
        /\ fs = <<>> => result.kind = "ok"
        /\ (fs # <<>> /\ Head(fs).kind = "unresolved" /\ Head(fs).closed)
           => IF /\ IsUnsigned(Head(fs).ident)
                 /\ IntegerOf(Unsigned(Head(fs).ident)) = 0
                 /\ overflow_checks
                THEN result.kind = "panic"
                ELSE result = [kind |-> "err",
                               msg |-> <<"no value specified for argument: ">>
                                       \o Head(fs).ident]
\* a valid line was parsed, then a line with two unresolved idents failed
\* with the first of them
C2_Witness ==
    /\ input = <<"o", "n", "e", "\n", "c", SPACE, "$", "(", "N", "o", ")", SPACE, "$", "(",
        "3", ")", "\n">>
    /\ collected # <<>>
    /\ result = [kind |-> "err",
                 msg |-> <<"no value specified for argument: ">> \o <<"N", "o">>]

\* the quoting of a fragment: the ` | ` outside quotes, and whether a quote
\* is left open at its end
RECURSIVE QuoteScan(_, _, _, _)
QuoteScan(s, i, inq, pipes) ==
    IF i > Len(s) THEN [pipes |-> pipes, open |-> inq]
    ELSE IF inq
      THEN IF s[i] = BACKSLASH /\ i < Len(s) /\ s[i + 1] = QUOTE
             THEN QuoteScan(s, i + 2, TRUE, pipes)
           ELSE QuoteScan(s, i + 1, s[i] # QUOTE, pipes)
    ELSE IF s[i] = QUOTE THEN QuoteScan(s, i + 1, TRUE, pipes)
    ELSE IF i + 2 <= Len(s) /\ SubSeq(s, i, i + 2) = <<SPACE, "|", SPACE>>
      THEN QuoteScan(s, i + 3, FALSE, pipes + 1)
    ELSE QuoteScan(s, i + 1, FALSE, pipes)
\* the words of the commands of an Item, names and arguments
WordsOfItem(item) ==
    UNION { {item.cmds[j].name} \cup
            {item.cmds[j].args[k] : k \in 1..Len(item.cmds[j].args)} :
            j \in 1..Len(item.cmds) }
\* the tokens of a string that hold whitespace: its quoted arguments
QuotedTokens(s) ==
    {CollectWords(s)[k] : k \in {n \in 1..Len(CollectWords(s)) :
                                   Contains(CollectWords(s)[n], SPACE)}}

\* C4: a fragment whose quotes are closed has one Cmd more than it has ` | `
\* outside quotes, and (without redirection or substitution) each of its
\* quoted arguments is a word of one of its Cmds, whatever it holds.
C4_QuotedPipe ==
    result.kind = "ok" =>
        \A i \in 1..Len(Units) :
            (~Units[i].comment
               /\ ~QuoteScan(StripMarker(Units[i].frag), 1, FALSE, 0).open) =>
                /\ Len(result.val[i].cmds)
                     = 1 + QuoteScan(StripMarker(Units[i].frag), 1, FALSE, 0).pipes
                /\ (~Contains(Units[i].frag, ">")
                      /\ ~Contains(Units[i].frag, "$")) =>
                     QuotedTokens(StripMarker(Units[i].frag))
                        \subseteq WordsOfItem(result.val[i])

\* the fragment starts, after leading whitespace, with the marker `- `
Marked(f) == StartsWith(TrimStart(f), <<"-", SPACE>>)
Unmarked(f) == SubSeq(TrimStart(f), 3, Len(TrimStart(f)))

\* C5: the marker is seen on every fragment of a line: ignore_failure is
\* true exactly for the fragments that start with it, and the Cmds of a
\* marked fragment are those of the fragment without the marker.
C5_MarkerPerFragment ==
    result.kind = "ok" =>
        \A i \in 1..Len(Units) :
            ~Units[i].comment =>
                /\ result.val[i].ignore_failure = Marked(Units[i].frag)
                /\ Marked(Units[i].frag) =>
                     /\ parse_pipeline(Unmarked(Units[i].frag), named,
                                       positional, overflow_checks).kind = "ok"
                     /\ result.val[i].cmds
                          = parse_pipeline(Unmarked(Units[i].frag), named,
                                           positional, overflow_checks).val.cmds

\* the ` | `-separated commands of a fragment as written
Pieces(f) == SplitStr(StripMarker(f), <<SPACE, "|", SPACE>>)
\* the position of the first ` > ` of a command, 0 when it has none
RedirectAt(c) ==
    LET ps == {p \in 1..(Len(c) - 2) : SubSeq(c, p, p + 2) = <<SPACE, ">", SPACE>>}
    IN  IF ps = {} THEN 0 ELSE SetMin(ps)
AfterRedirect(c) == SubSeq(c, RedirectAt(c) + 3, Len(c))
BeforeRedirect(c) ==
    IF RedirectAt(c) = 0 THEN c ELSE SubSeq(c, 1, RedirectAt(c) - 1)
RECURSIVE DropRedirects(_)
DropRedirects(t) ==
    IF StartsWith(t, <<SPACE, ">", SPACE>>)
      THEN DropRedirects(SubSeq(t, 4, Len(t)))
      ELSE t
\* cmd is the command written as text: its words, substitution aside
CmdFrom(cmd, text) ==
    /\ CollectWords(text) # <<>>
    /\ cmd.name = Head(CollectWords(text))
    /\ Len(cmd.args) = Len(CollectWords(text)) - 1
    /\ \A k \in 1..Len(cmd.args) :
         ~Contains(CollectWords(text)[k + 1], "$") =>
             cmd.args[k] = CollectWords(text)[k + 1]
\* the Item of fragment f: its last command is cut at its first ` > `, the
\* others are kept whole; path(t) is the terminus made of the text t after it
TerminusFrom(item, f, path(_)) ==
    /\ Len(item.cmds) = Len(Pieces(f))
    /\ \A j \in 1..(Len(Pieces(f)) - 1) : CmdFrom(item.cmds[j], Pieces(f)[j])
    /\ CmdFrom(item.cmds[Len(Pieces(f))],
               BeforeRedirect(Pieces(f)[Len(Pieces(f))]))
    /\ item.terminus =
         IF RedirectAt(Pieces(f)[Len(Pieces(f))]) = 0 THEN None
         ELSE Some(path(AfterRedirect(Pieces(f)[Len(Pieces(f))])))
SameText(t) == t

\* C6 as stated: the terminus is the text after the ` > ` of the last command.
C6_Original ==
    result.kind = "ok" =>
        \A i \in 1..Len(Units) :
            ~Units[i].comment =>
                TerminusFrom(result.val[i], Units[i].frag, SameText)

\* C6: ` > ` is looked for in the last ` | `-separated command only: when it
\* is there the terminus is the text after the first one, less any ` > `
\* that follow it directly, and the text before it is the last command; when
\* it is not there the terminus is None; the words of the other commands,
\* a ` > ` among them, stay their arguments.
C6_Terminus ==
    result.kind = "ok" =>
        \A i \in 1..Len(Units) :
            ~Units[i].comment =>
                TerminusFrom(result.val[i], Units[i].frag, DropRedirects)
\* three commands, the last one redirected to out.txt
C6_Witness ==
    /\ result.kind = "ok"
    /\ Len(result.val) = 1
    /\ result.val[1].type = "Pipeline"
    /\ Len(result.val[1].cmds) = 3
    /\ result.val[1].cmds[3].args = << <<"5">> >>
    /\ result.val[1].terminus = Some(<<"o", "u", "t", ".", "t", "x", "t">>)

\* C12: the literal of every Pipeline Item is its source fragment, marker
\* and redirection included, with leading and trailing whitespace removed,
\* for every fragment of a line.
C12_LiteralTrimmed ==
    result.kind = "ok" =>
        /\ Len(result.val) = Len(Units)
        /\ \A i \in 1..Len(Units) :
             ~Units[i].comment =>
                 result.val[i].literal = Trim(Units[i].frag)

\* C17: a positional reference $(N) with N = 0 or N above the number of
\* positional values ends parse with the ordinary error naming N; the index
\* computation never ends the program abnormally.
C17_PositionalBounds ==
    /\ result.kind # "panic"
    /\ result.kind \notin {"pending", "idle"} =>
         LET fs == Failures IN
         (/\ fs # <<>>
          /\ Head(fs).kind = "unresolved"
          /\ Head(fs).closed
          /\ IsInteger(Head(fs).ident))
         => result = [kind |-> "err",
                      msg |-> <<"no value specified for argument: ">>
                              \o Head(fs).ident]

-----------------------------------------------------------------------------
(* Properties of Pipeline::execute *)

\* the commands of the pipeline that execute has finished with: the ones
\* before the one it has taken, and that one too once its arm has run
Handled(k) ==
    \/ k < Position
    \/ k = Position /\ epc \in {"loop", "wait", "returned"}

\* C11: the built-in cp requires exactly two arguments: a cp with any other
\* number of arguments makes execute return an error and copies nothing, a
\* cp with two arguments copies the first path to the second, and a copy that
\* fails makes execute return an error.
C11_CpExactlyTwo ==
    self.type = "Pipeline" /\ epc # "start" =>
        /\ \A i \in 1..Len(trace) :
              trace[i].op = "cp" =>
                  /\ Len(self.cmds[trace[i].k].args) = 2
                  /\ trace[i].text = self.cmds[trace[i].k].args[1]
                  /\ trace[i].to = self.cmds[trace[i].k].args[2]
        /\ \A k \in 1..Len(self.cmds) :
              (IsCp(self.cmds[k].name) /\ Len(self.cmds[k].args) # 2 /\ Handled(k))
                  => ret.kind = "err"
        /\ \A i \in 1..Len(trace) :
              (trace[i].op = "fail" /\ trace[i].text = "cp") => ret.kind = "err"

\* the position in the pipeline of the command that process p was spawned for
SpawnPosition(p) ==
    trace[CHOOSE i \in 1..Len(trace) :
            trace[i].op = "spawn" /\ trace[i].proc = p].k

\* the positions before k that hold an external command
ExternalsBefore(k) == {j \in 1..(k - 1) : IsExternal(self.cmds[j].name)}

\* C13 as stated: an external command inherits the caller's standard input
\* if and only if it is the first command of its pipeline, and an external
\* command at a later position has as standard input the standard output of
\* a process spawned earlier in the pipeline.
C13_Original ==
    \A p \in 1..Len(procs) :
        /\ procs[p].stdin = Inherit <=> SpawnPosition(p) = 1
        /\ SpawnPosition(p) > 1 =>
              /\ procs[p].stdin.kind = "pipe"
              /\ procs[p].stdin.of < p
              /\ procs[procs[p].stdin.of].stdout = Piped

\* C13: an external command inherits the caller's standard input if and only
\* if no external command precedes it in its pipeline, the built-ins rm and
\* cp not counting; an external command with an external command before it
\* has as standard input the standard output of the process spawned for the
\* nearest such command.
C13_Stdin ==
    \A p \in 1..Len(procs) :
        LET before == ExternalsBefore(SpawnPosition(p)) IN
        /\ procs[p].stdin = Inherit <=> before = {}
        /\ before # {} =>
              /\ procs[p].stdin.kind = "pipe"
              /\ procs[p].stdin.of < p
              /\ procs[procs[p].stdin.of].stdout = Piped
              /\ SpawnPosition(procs[p].stdin.of) = SetMax(before)

\* an external command after an external command and a built-in has been
\* spawned, and so has an external command that only a built-in precedes
C13_Witness ==
    \E p \in 1..Len(procs) :
        /\ SpawnPosition(p) = 3
        /\ ~IsExternal(self.cmds[2].name)
        /\ \/ IsExternal(self.cmds[1].name) /\ procs[p].stdin.kind = "pipe"
           \/ ~IsExternal(self.cmds[1].name) /\ procs[p].stdin = Inherit

\* the processes that were given the stdout of process p as their stdin
ReadersOf(p) == {q \in 1..Len(procs) : procs[q].stdin = PipeOf(p)}

\* C14: a stage is given a pipe as its standard output exactly when another
\* command follows it; no pipe is given to more than one later stage; and
\* execute is not at its final wait, and has not returned success, while the
\* stdout pipe of a spawned stage has not been given to a later stage as its
\* standard input.
C14_PipesHandedOver ==
    /\ \A p \in 1..Len(procs) :
          /\ procs[p].stdout = Piped <=> SpawnPosition(p) < Len(self.cmds)
          /\ Cardinality(ReadersOf(p)) <= 1
          /\ \A q \in ReadersOf(p) : q > p
    /\ (epc = "wait" \/ ret.kind = "ok") =>
          \A p \in 1..Len(procs) : procs[p].stdout = Piped => ReadersOf(p) # {}

\* C19: whenever execute is about to take the stdout handle of the process
\* in prev for the stdin of an external command, that process was spawned
\* with a piped stdout and the handle has not been taken before; the unwrap
\* never panics.
C19_UnwrapNeverPanics ==
    /\ epc # "panicked"
    /\ (epc = "match" /\ IsExternal(cmdNow.val.name) /\ prevProc.some) =>
          /\ procs[prevProc.val].stdout = Piped
          /\ procs[prevProc.val].stdout_handle
          /\ ReadersOf(prevProc.val) = {}

\* in a pipeline with a terminus, the stdout handle of a process was taken
\* for an external command that a built-in separates from it
C19_Witness ==
    /\ self.type = "Pipeline"
    /\ self.terminus.some
    /\ epc = "stdout"
    /\ Position = 3
    /\ ~IsExternal(self.cmds[2].name)
    /\ stdinNow = Some(PipeOf(1))
    /\ ~procs[1].stdout_handle

\* the entries of trace that carry the position of a command
Steps == {i \in 1..Len(trace) : trace[i].op # "wait"}
EchoSteps == {i \in 1..Len(trace) : trace[i].op = "echo"}

\* C15: the commands are handled in order, the line of a command is written
\* to the sink before anything is done for that command, and when the step
\* of command k fails execute returns an error with nothing echoed, removed,
\* copied, created, spawned or waited for afterwards.
C15_InOrder ==
    /\ \A i, j \in Steps : i < j => trace[i].k <= trace[j].k
    /\ \A i \in Steps :
          (trace[i].op # "echo" /\ trace[i] # Failed(trace[i].k, "write")) =>
              \E e \in EchoSteps : e < i /\ trace[e].k = trace[i].k
    /\ Len(sink) = Cardinality(EchoSteps)
    /\ \A n \in 1..Len(sink) :
          /\ sink[n] = Cmd_fmt(self.cmds[n]) \o <<"\n">>
          /\ \E e \in EchoSteps : trace[e].k = n
    /\ \A i \in 1..Len(trace) :
          trace[i].op = "fail" =>
              /\ i = Len(trace)
              /\ ret.kind = "err"
              /\ epc = "returned"
              /\ Len(sink) <= trace[i].k
              /\ \A p \in 1..Len(procs) : SpawnPosition(p) < trace[i].k

\* the step of the second command failed after a process was spawned for the
\* first, with a command still to come
C15_Witness ==
    /\ trace # <<>>
    /\ trace[Len(trace)].op = "fail"
    /\ trace[Len(trace)].text \in {"rm", "cp", "terminus", "spawn"}
    /\ trace[Len(trace)].k = 2
    /\ Len(self.cmds) = 3
    /\ Len(procs) = 1
    /\ ret.kind = "err"

\* the entries of trace that are a wait
WaitSteps == {i \in 1..Len(trace) : trace[i].op = "wait"}

\* C16: execute waits for at most one process, the last one it spawned, and
\* only once every command was processed; a wait has returned only when that
\* process has completed; execute returns an error only when a step failed;
\* and when it returns success it has waited for the last process spawned if
\* there is one, and for nothing otherwise, whatever the exit statuses.
C16_WaitLast ==
    /\ \A i \in WaitSteps :
          /\ i = Len(trace)
          /\ trace[i].proc = Len(procs)
          /\ procs[trace[i].proc].exited
          /\ cmdIter = <<>>
          /\ ret.kind = "ok"
    /\ ret.kind = "err" => \E i \in 1..Len(trace) : trace[i].op = "fail"
    /\ (ret.kind = "ok" /\ self.type = "Pipeline") =>
          /\ Cardinality(WaitSteps) = (IF procs = <<>> THEN 0 ELSE 1)
          /\ \A i \in 1..Len(trace) : trace[i].op # "fail"
          /\ Len(sink) = Len(self.cmds)

\* success was returned after the last of two processes exited with a
\* failure status, the first one still running
C16_Witness ==
    /\ ret.kind = "ok"
    /\ Len(procs) = 2
    /\ ~procs[1].exited
    /\ procs[2].status = Some(1)
    /\ WaitSteps # {}

-----------------------------------------------------------------------------
(* Properties of main *)

\* C9: when running a pipeline fails in a normal run and the pipeline carries
\* the marker of ignore_failure, the run goes on to the next item: it never
\* stops at such a pipeline with items left that were not run.
C9_IgnoreFailureContinues ==
    (/\ pc = "run_panicked"
     /\ ~dry_run
     /\ IgnoreFailureOf(itemNow.val.literal))
    => itemsLeft = <<>>

\* some line of the script does not parse
SomeLineFails ==
    \E i \in 1..Len(StrLines(input)) :
        main_ParseLine(StrLines(input)[i], named, positional,
                       overflow_checks).kind # "ok"

\* C10: the whole script is parsed before anything is executed: while parse
\* has not returned nothing is printed, removed, spawned or waited for, and
\* when a line of the script does not parse nothing ever is, the run ending
\* in the parse.
C10_ParseBeforeExecute ==
    /\ pc = "parse" => effects = <<>>
    /\ SomeLineFails => effects = <<>> /\ pc \in {"parse", "parse_panicked"}
\* a line that parses, then one that does not: the run has ended and has
\* done nothing
C10_Witness ==
    /\ input = <<"e", "c", "h", "o", SPACE, "h", "i", "\n", "x", SPACE, "v", "$", "N", "o", "\n">>
    /\ pc = "parse_panicked"
    /\ effects = <<>>

=============================================================================
